---- MODULE Spec2Model ----
(***************************************************************************)
(* Fleet task-assignment engine of the P.U.R.E-Skies emulator.             *)
(*                                                                         *)
(*  - the event-driven dispatcher: concurrency_simulation                  *)
(*    (new approach/simulation.py) and simulate_day_events                 *)
(*    (new approach/visual_simulator.py), one action per loop step;        *)
(*  - the capacity-aware route constructor: build_path_with_capacity       *)
(*    (test.py), the same code as RoutingManager.capacity_split_path       *)
(*    (new.py; in Mathimatical model using 03/UI.py the closing depot of   *)
(*    the unlimited route is appended inside nearest_neighbor, with the    *)
(*    same result), as operators applied by the action of RouteSpec;       *)
(*  - SimulationEngine.run with RoutePlanner and the agents of             *)
(*    new approach/simulation (engine.py, routing.py, agents.py), one      *)
(*    action per pass of its loops: EngineSpec;                            *)
(*  - the tick of a moving Agent (new.py, Agent.update), one action per    *)
(*    tick: KinSpec;                                                       *)
(*  - TrashCollector.return_home and Simulator.calc_time                   *)
(*    (Mathimatical model from scratch), one action per call:              *)
(*    CollectorSpec;                                                       *)
(*  - split_trash_among_drones (test.py, new.py), an operator applied by   *)
(*    the action of SplitSpec;                                             *)
(*  - the playback of new.py, a HumanAgent and the DroneAgents on one      *)
(*    environment, one action per update_frame: PlaybackSpec; one          *)
(*    HumanAgent of new.py alone: GroundSpec;                              *)
(*  - one HumanAgent and one DroneAgent of new approach/simulation         *)
(*    /agents.py, updated with one time step: WalkSpec, FlightSpec;        *)
(*  - the loop of SimulationEngine.run with its clock and its log:         *)
(*    RunSpec;                                                             *)
(*  - simulate_day_events with rounded times: RoundedSpec;                 *)
(*  - SimulationView of visual_simulator.py playing a schedule back:       *)
(*    ViewSpec;                                                            *)
(*  - main() of Claude.py, Simulation.run beside Visualizer.run:           *)
(*    ClaudeSpec.                                                          *)
(*                                                                         *)
(* Numbers.  Positions are integer points whose pairwise distances are     *)
(* whole numbers, so math.hypot is exact on them.  Durations are counted   *)
(* in ticks of 1/TimeScale second, TimeScale being a common multiple of    *)
(* the speeds, so distance / speed is exact as well.  The moving Agent     *)
(* computes on rounded numbers; see its section.                           *)
(***************************************************************************)
EXTENDS Integers, Sequences, FiniteSets, TLC

(* ------------------------------ bounds -------------------------------- *)

MaxTasks == 3
MaxAgents == 2
MaxCapacity == 2
MaxLineTasks == 6

(* ------------------------------ inputs -------------------------------- *)

Origin == <<0, 0>>

\* Corners of a 3 x 4 rectangle: sides 3 and 4, diagonals 5.
Points == {<<0, 0>>, <<3, 0>>, <<3, 4>>, <<0, 4>>}

\* Depots of simulate_day_events: two opposite corners (the other two are
\* their mirror images).
Depots == {<<0, 0>>, <<3, 4>>}

\* Positions on a line through the origin, for the longer task lists of the
\* route constructor (any two of them are a whole distance apart).
LinePoints == {<<0 - 9, 0>>, <<0 - 3, 0>>, <<0 - 2, 0>>, <<2, 0>>}

LineTaskLists == UNION {[1..n -> LinePoints] : n \in 0..MaxLineTasks}

RoutePoints == Points \cup LinePoints

SpeedValues == {0 - 1, 0, 1, 2}

AgentCounts == (0 - 1)..MaxAgents

Capacities == (0 - 1)..MaxCapacity

TaskLists == UNION {[1..n -> Points] : n \in 0..MaxTasks}

Abs(x) == IF x < 0 THEN 0 - x ELSE x

\* Ticks per second: the least count every non-zero speed divides.
TimeScale ==
    CHOOSE k \in 1..4 :
        /\ \A s \in SpeedValues \ {0} : k % Abs(s) = 0
        /\ \A j \in 1..(k - 1) : \E s \in SpeedValues \ {0} : j % Abs(s) # 0

(* ----------------------------- geometry ------------------------------- *)

\* The exact root; undefined (TLC stops) when n is no perfect square.
ISqrt(n) == CHOOSE r \in 0..n : r * r = n

\* math.hypot(p[0] - q[0], p[1] - q[1])
distance(p, q) ==
    ISqrt((p[1] - q[1]) * (p[1] - q[1]) + (p[2] - q[2]) * (p[2] - q[2]))

\* dist / speed_m_s in ticks, for speed_m_s # 0 (Python's true division).
TravelTime(dist, speed) ==
    IF speed > 0 THEN (dist * TimeScale) \div speed
    ELSE 0 - ((dist * TimeScale) \div (0 - speed))

(* ------------------------- sequence helpers --------------------------- *)

Min2(a, b) == IF a <= b THEN a ELSE b

\* list.pop(i) / del list[i], 1-based
RemoveAt(s, i) == [k \in 1..(Len(s) - 1) |-> IF k < i THEN s[k] ELSE s[k + 1]]

\* The slip of filtering by value: drops every element equal to v.
RemoveFirst_All(s, v) == SelectSeq(s, LAMBDA x : x # v)

\* list.remove(v): drops the first element equal to v
RemoveFirst(s, v) ==
    RemoveAt(s, CHOOSE i \in 1..Len(s) : s[i] = v /\ \A j \in 1..(i - 1) : s[j] # v)

\* The slip of "<=" for "<" in the scan: the last nearest point.
NearestIdx_LastTie(pos, pts) ==
    LET d == [k \in 1..Len(pts) |-> distance(pos, pts[k])]
    IN CHOOSE i \in 1..Len(pts) :
          /\ \A j \in 1..Len(pts) : d[i] <= d[j]
          /\ \A j \in (i + 1)..Len(pts) : d[j] > d[i]

\* The slip of taking max for min: the first farthest point.
NearestIdx_Farthest(pos, pts) ==
    LET d == [k \in 1..Len(pts) |-> distance(pos, pts[k])]
    IN CHOOSE i \in 1..Len(pts) :
          /\ \A j \in 1..Len(pts) : d[i] >= d[j]
          /\ \A j \in 1..(i - 1) : d[j] < d[i]

\* min(points, key = distance from pos): index of the first nearest point
\* (Python's min and the strict "<" scan both keep the first minimum).
NearestIdx(pos, pts) ==
    LET d == [k \in 1..Len(pts) |-> distance(pos, pts[k])]
    IN CHOOSE i \in 1..Len(pts) :
          /\ \A j \in 1..Len(pts) : d[i] <= d[j]
          /\ \A j \in 1..(i - 1) : d[j] > d[i]

(* ------------------------------ state --------------------------------- *)

VARIABLES
    entry,            \* which dispatcher entry point was called
    num_agents, speed_m_s, trash_locations, capacity, start,   \* its arguments
    pc,               \* "call", "while", "capacity", "returned", "raised"
    agents,           \* 1..num_agents -> agent record
    remaining,        \* outstanding tasks: sequence of [idx, pos]
    time_passed,      \* the global clock, in ticks
    i_min,            \* agent selected by the current iteration (0: none)
    travel_time,      \* travel time of the current iteration's pickup
    final_time,       \* returned completion time, in ticks
    total_distance,   \* returned total distance (concurrency_simulation)
    exception,        \* "" or the name of the exception raised
    assigned,         \* history: the assignments made, in order
    rpc,              \* route constructor: "call" or "returned"
    bin_pos, trash_points, rcapacity,   \* its arguments
    full_path,        \* the waypoint sequence it returned
    epc,              \* SimulationEngine.run: "call", "routes", "loop", ...
    algorithm,        \* RoutePlanner.algorithm
    bins,             \* Environment.bins
    fleet,            \* SimulationEngine.agents: sequence of agent records
    cursor,           \* the agent the route loop of run is at
    current_time,     \* SimulationEngine.current_time, in time steps
    error,            \* "" or the exception an agent's update raised
    route, speed, pickup_time, trash_positions,   \* a moving Agent: its setup
    position_index, current_position,             \* and its state
    pickup_timer, distance_traveled, total_time, collected_positions,
    dwell,            \* history: time in pickup since the last arrival, exact
    collector,        \* a TrashCollector: record of its fields
    sized,            \* len(environment.number_of_trash) is defined
    trash_list,       \* Environment.trash_list
    call,             \* history: the last call on the collector, numbered
    cerror,           \* "" or the exception the last call raised
    spc,              \* "idle", "call", "returned", "raised"
    drone_trash, num_drones, bin_position,   \* arguments of the split
    assignments,      \* its result: one task list per drone
    serror,           \* "" or the exception the split raised
    frame_agents,     \* SimulationVisualizer.agents: humans, then drones
    env_trash,        \* env.trash_positions, shared by all the agents
    play_tasks,       \* history: env.trash_positions when the playback began
    frames,           \* number of update_frame calls so far
    frame_dt,         \* history: dt of the last update_frame
    playing,          \* the frame timer is running
    alone,            \* history: every agent updated with a trash list of its own
    solo,             \* one agent of simulation/agents.py: record of its fields
    time_step,        \* the dt its update is called with
    logs,             \* SimulationEngine.logs: the 'time' of every entry
    max_time,         \* the argument of run
    sim_time,         \* SimulationView.sim_time, in tenths of a second
    shown,            \* what get_agent_position gave for every agent
    timer_on,         \* the timer of the SimulationView is running
    running,          \* Claude.py: Simulation.running
    time,             \* Simulation.time, in steps of dt
    duration,         \* the argument of Simulation.run, in steps of dt
    paths,            \* the number of targets left on every agent's path
    sim_pc,           \* the coroutine Simulation.run: "created", "loop", "done"
    vis_pc,           \* the thread of Visualizer.run: "created", "loop", "done"
    quit,             \* the pygame.QUIT event: "none", "queued", "handled"
    main_pc           \* main(): "gather" or "done"

dvars == <<entry, num_agents, speed_m_s, trash_locations, capacity, start, pc,
           agents, remaining, time_passed, i_min, travel_time, final_time,
           total_distance, exception, assigned>>

rvars == <<rpc, bin_pos, trash_points, rcapacity, full_path>>

evars == <<epc, algorithm, bins, fleet, cursor, current_time, error>>

kvars == <<route, speed, pickup_time, trash_positions, position_index,
           current_position, pickup_timer, distance_traveled, total_time,
           collected_positions, dwell>>

cvars == <<collector, sized, trash_list, call, cerror>>

svars == <<spc, drone_trash, num_drones, bin_position, assignments, serror>>

pvars == <<frame_agents, env_trash, play_tasks, frames, frame_dt, playing,
           alone>>

avars == <<solo, time_step>>

lvars == <<logs, max_time>>

vvars == <<sim_time, shown, timer_on>>

tvars == <<running, time, duration, paths, sim_pc, vis_pc, quit, main_pc>>

vars == <<dvars, rvars, evars, kvars, cvars, svars, pvars, avars, lvars, vvars, tvars>>

NoIndex == 0 - 1

\* The route constructor is not running.
RouteIdle ==
    /\ rpc = "idle"
    /\ bin_pos = Origin
    /\ trash_points = <<>>
    /\ rcapacity = 0
    /\ full_path = <<>>

\* No SimulationEngine is running.
EngineIdle ==
    /\ epc = "idle"
    /\ algorithm = ""
    /\ bins = <<>>
    /\ fleet = <<>>
    /\ cursor = 0
    /\ current_time = 0
    /\ error = ""

\* No Agent is moving.
KinIdle ==
    /\ route = <<>>
    /\ speed = 0
    /\ pickup_time = 0
    /\ trash_positions = <<>>
    /\ position_index = 0
    /\ current_position = Origin
    /\ pickup_timer = 0
    /\ distance_traveled = 0
    /\ total_time = 0
    /\ collected_positions = {}
    /\ dwell = 0

\* No TrashCollector is in use.
CollectorIdle ==
    /\ collector = [speed |-> 0]
    /\ sized = FALSE
    /\ trash_list = <<>>
    /\ call = [n |-> 0]
    /\ cerror = ""

\* No split is in use.
SplitIdle ==
    /\ spc = "idle"
    /\ drone_trash = <<>>
    /\ num_drones = 0
    /\ bin_position = Origin
    /\ assignments = <<>>
    /\ serror = ""

\* No playback is set up.
PlaybackIdle ==
    /\ frame_agents = <<>>
    /\ env_trash = <<>>
    /\ play_tasks = <<>>
    /\ frames = 0
    /\ frame_dt = 0
    /\ playing = FALSE
    /\ alone = <<>>

\* No agent is updated on its own.
SoloIdle ==
    /\ solo = [kind |-> "none"]
    /\ time_step = 0

\* No run is logged.
LogIdle ==
    /\ logs = <<>>
    /\ max_time = 0

\* No SimulationView is playing.
ViewIdle ==
    /\ sim_time = 0
    /\ shown = <<>>
    /\ timer_on = FALSE

\* The program of Claude.py is not running.
ClaudeIdle ==
    /\ running = FALSE
    /\ time = 0
    /\ duration = 0
    /\ paths = <<>>
    /\ sim_pc = "idle"
    /\ vis_pc = "idle"
    /\ quit = "none"
    /\ main_pc = "idle"

\* The dispatcher is not running.
DispatchIdle ==
    /\ entry = "none"
    /\ num_agents = 0
    /\ speed_m_s = 0
    /\ trash_locations = <<>>
    /\ capacity = 0
    /\ start = Origin
    /\ pc = "idle"
    /\ agents = <<>>
    /\ remaining = <<>>
    /\ time_passed = 0
    /\ i_min = 0
    /\ travel_time = 0
    /\ final_time = 0
    /\ total_distance = 0
    /\ exception = ""
    /\ assigned = <<>>

(* ---------------------------- dispatcher ------------------------------ *)

\* list(enumerate(trash_locations)), indices from 0 as in the code
Enumerate(s) == [k \in 1..Len(s) |-> [idx |-> k - 1, pos |-> s[k]]]

Positions(rem) == [k \in 1..Len(rem) |-> rem[k].pos]

\* A scan that keeps the later of two equal agents: the last agent of least
\* value.
MinAgent_LastTie(ags) ==
    CHOOSE i \in DOMAIN ags :
        /\ \A j \in DOMAIN ags : ags[i].time_to_free <= ags[j].time_to_free
        /\ \A j \in DOMAIN ags : j > i => ags[j].time_to_free > ags[i].time_to_free

\* min(range(num_agents), key = time_to_free): the first agent of least value
MinAgent(ags) ==
    CHOOSE i \in DOMAIN ags :
        /\ \A j \in DOMAIN ags : ags[i].time_to_free <= ags[j].time_to_free
        /\ \A j \in DOMAIN ags : j < i => ags[j].time_to_free > ags[i].time_to_free

\* for ag in agents: ag["time_to_free"] -= t_min; agents[i]["time_to_free"] = 0.0
AdvanceClock(ags, i, t_min) ==
    [j \in DOMAIN ags |->
        [ags[j] EXCEPT !.time_to_free = IF j = i THEN 0 ELSE @ - t_min]]

MaxOf(S) == CHOOSE x \in S : \A y \in S : y <= x

RECURSIVE SumOver(_, _)
SumOver(f, S) ==
    IF S = {} THEN 0
    ELSE LET x == CHOOSE y \in S : TRUE IN f[x] + SumOver(f, S \ {x})

\* The slip of returning the clock of the last assignment.
CompletionTime_NoDrain(ags, t) == t

\* time_passed + max(ag["time_to_free"] for ag in agents)
CompletionTime(ags, t) ==
    t + MaxOf({ags[i].time_to_free : i \in DOMAIN ags})

\* The slip of dropping by position: tasks at the same place go together.
DropTask_ByPosition(rem, best) == SelectSeq(rem, LAMBDA it : it.pos # best.pos)

\* remaining = [item for item in remaining if item[0] != trash_idx]
DropTask(rem, best) == SelectSeq(rem, LAMBDA it : it.idx # best.idx)

\* The slip of ">" for ">=".
AtCapacity_Strict(used, cap) == used > cap

\* if agents[i_min]['capacity_used'] >= capacity
AtCapacity(used, cap) == used >= cap

\* The slip of ">=" for ">".
Limited_NonNegative(cap) == cap >= 0

\* if capacity > 0
Limited(cap) == cap > 0

\* The slip of "=" for "+=".
AddDistance_Overwrite(total, dist) == dist

\* agents[i_min]["total_distance"] += closest_dist
AddDistance(total, dist) == total + dist

\* The working pool is the caller's list under a second name.
CallerList_Aliased(caller, pool) == Positions(pool)

\* remaining_trash = trash_locations.copy(): the pops of the working pool
\* leave the caller's list as it is.
CallerList(caller, pool) == caller

NewAgent(p) ==
    [position |-> p, time_to_free |-> 0, total_distance |-> 0,
     capacity_used |-> 0, schedule |-> <<>>]

Init ==
    /\ entry \in {"concurrency_simulation", "simulate_day_events"}
    /\ num_agents \in AgentCounts
    /\ speed_m_s \in SpeedValues
    /\ trash_locations \in TaskLists
    /\ capacity \in (IF entry = "simulate_day_events" THEN Capacities ELSE {0})
    /\ start \in (IF entry = "simulate_day_events" THEN Depots ELSE {Origin})
    /\ pc = "call"
    /\ agents = <<>>
    /\ remaining = <<>>
    /\ time_passed = 0
    /\ i_min = 0
    /\ travel_time = 0
    /\ final_time = 0
    /\ total_distance = 0
    /\ exception = ""
    /\ assigned = <<>>
    /\ RouteIdle /\ EngineIdle /\ KinIdle /\ CollectorIdle /\ SplitIdle /\ PlaybackIdle /\ SoloIdle /\ LogIdle /\ ViewIdle /\ ClaudeIdle

\* concurrency_simulation, lines 20-36: the guard, the agents, the copy.
ConcEntry ==
    /\ pc = "call"
    /\ entry = "concurrency_simulation"
    /\ IF num_agents <= 0 \/ speed_m_s <= 0 \/ trash_locations = <<>>
       THEN /\ pc' = "returned"
            /\ final_time' = 0
            /\ total_distance' = 0
            /\ UNCHANGED <<agents, remaining>>
       ELSE /\ pc' = "while"
            /\ agents' = [i \in 1..num_agents |-> NewAgent(Origin)]
            /\ remaining' = Enumerate(trash_locations)
            /\ UNCHANGED <<final_time, total_distance>>
    /\ UNCHANGED <<entry, num_agents, speed_m_s, trash_locations, capacity,
                   start, time_passed, i_min, travel_time, exception, assigned>>
    /\ UNCHANGED <<rvars, evars, kvars, cvars, svars, pvars, avars, lvars, vvars, tvars>>

\* concurrency_simulation, lines 39-68: one iteration of the while loop.
ConcIterate ==
    /\ pc = "while"
    /\ entry = "concurrency_simulation"
    /\ remaining # <<>>
    /\ LET i == MinAgent(agents)
           t_min == agents[i].time_to_free
           adv == AdvanceClock(agents, i, t_min)
           current_pos == adv[i].position
           closest_idx == NearestIdx(current_pos, Positions(remaining))
           item == remaining[closest_idx]
           closest_dist == distance(current_pos, item.pos)
           tt == TravelTime(closest_dist, speed_m_s)
       IN /\ time_passed' = time_passed + t_min
          /\ remaining' = RemoveAt(remaining, closest_idx)
          /\ agents' = [adv EXCEPT ![i].position = item.pos,
                                   ![i].total_distance = AddDistance(@, closest_dist),
                                   ![i].time_to_free = tt]
          /\ i_min' = i
          /\ travel_time' = tt
          /\ assigned' = Append(assigned,
                [agent |-> i, trash_index |-> item.idx, pos |-> item.pos,
                 end_time |-> time_passed' + tt])
    /\ trash_locations' = CallerList(trash_locations, remaining')
    /\ UNCHANGED <<entry, num_agents, speed_m_s, capacity,
                   start, pc, final_time, total_distance, exception>>
    /\ UNCHANGED <<rvars, evars, kvars, cvars, svars, pvars, avars, lvars, vvars, tvars>>

\* concurrency_simulation, lines 72-75: the loop is over, the results.
ConcReturn ==
    /\ pc = "while"
    /\ entry = "concurrency_simulation"
    /\ remaining = <<>>
    /\ pc' = "returned"
    /\ final_time' = CompletionTime(agents, time_passed)
    /\ total_distance' =
         SumOver([i \in DOMAIN agents |-> agents[i].total_distance], DOMAIN agents)
    /\ UNCHANGED <<entry, num_agents, speed_m_s, trash_locations, capacity,
                   start, agents, remaining, time_passed, i_min, travel_time,
                   exception, assigned>>
    /\ UNCHANGED <<rvars, evars, kvars, cvars, svars, pvars, avars, lvars, vvars, tvars>>

\* simulate_day_events, lines 19-28: no guard; range(n) is empty for n <= 0.
DayEntry ==
    /\ pc = "call"
    /\ entry = "simulate_day_events"
    /\ pc' = "while"
    /\ agents' = [i \in 1..num_agents |-> NewAgent(start)]
    /\ remaining' = Enumerate(trash_locations)
    /\ UNCHANGED <<entry, num_agents, speed_m_s, trash_locations, capacity,
                   start, time_passed, i_min, travel_time, final_time,
                   total_distance, exception, assigned>>
    /\ UNCHANGED <<rvars, evars, kvars, cvars, svars, pvars, avars, lvars, vvars, tvars>>

\* simulate_day_events, lines 29-63: select, advance the clock, assign the
\* nearest task, count it.  min() of an empty range raises ValueError
\* (line 30); a zero speed raises ZeroDivisionError (line 49).
DayAssign ==
    /\ pc = "while"
    /\ entry = "simulate_day_events"
    /\ remaining # <<>>
    /\ IF DOMAIN agents = {}
       THEN /\ pc' = "raised"
            /\ exception' = "ValueError"
            /\ UNCHANGED <<agents, remaining, time_passed, i_min, travel_time,
                           assigned>>
       ELSE LET i == MinAgent(agents)
                t_min == agents[i].time_to_free
                adv == AdvanceClock(agents, i, t_min)
                current_pos == adv[i].position
                best == remaining[NearestIdx(current_pos, Positions(remaining))]
                best_dist == distance(current_pos, best.pos)
            IN /\ time_passed' = time_passed + t_min
               /\ IF speed_m_s = 0
                  THEN /\ pc' = "raised"
                       /\ exception' = "ZeroDivisionError"
                       /\ agents' = adv
                       /\ UNCHANGED <<remaining, i_min, travel_time, assigned>>
                  ELSE LET tt == TravelTime(best_dist, speed_m_s)
                           segment ==
                             [start_time |-> time_passed', end_time |-> time_passed' + tt,
                              from |-> current_pos, to |-> best.pos,
                              type |-> "pickup", trash_index |-> best.idx]
                       IN /\ agents' =
                               [adv EXCEPT
                                  ![i].schedule = Append(@, segment),
                                  ![i].position = best.pos,
                                  ![i].time_to_free = @ + tt,
                                  ![i].capacity_used =
                                      IF Limited(capacity) THEN @ + 1 ELSE @]
                          /\ remaining' = DropTask(remaining, best)
                          /\ i_min' = i
                          /\ travel_time' = tt
                          /\ assigned' = Append(assigned,
                               [agent |-> i, trash_index |-> best.idx,
                                pos |-> best.pos, end_time |-> time_passed' + tt])
                          /\ pc' = IF Limited(capacity) THEN "capacity" ELSE "while"
                          /\ UNCHANGED exception
    /\ UNCHANGED <<entry, num_agents, speed_m_s, trash_locations, capacity,
                   start, final_time, total_distance>>
    /\ UNCHANGED <<rvars, evars, kvars, cvars, svars, pvars, avars, lvars, vvars, tvars>>

\* simulate_day_events, lines 64-78: a full agent goes back to the depot.
DayCapacity ==
    /\ pc = "capacity"
    /\ LET i == i_min
           pos == agents[i].position
           d_back == distance(pos, start)
           travel_time_back == TravelTime(d_back, speed_m_s)
           segment_return ==
             [start_time |-> time_passed + travel_time,
              end_time |-> time_passed + travel_time + travel_time_back,
              from |-> pos, to |-> start,
              type |-> "return", trash_index |-> NoIndex]
       IN agents' =
            IF AtCapacity(agents[i].capacity_used, capacity)
            THEN [agents EXCEPT ![i].schedule = Append(@, segment_return),
                                ![i].position = start,
                                ![i].time_to_free = @ + travel_time_back,
                                ![i].capacity_used = 0]
            ELSE agents
    /\ pc' = "while"
    /\ UNCHANGED <<entry, num_agents, speed_m_s, trash_locations, capacity,
                   start, remaining, time_passed, i_min, travel_time,
                   final_time, total_distance, exception, assigned>>
    /\ UNCHANGED <<rvars, evars, kvars, cvars, svars, pvars, avars, lvars, vvars, tvars>>

\* simulate_day_events, lines 79-80; max() of no agents raises ValueError.
DayReturn ==
    /\ pc = "while"
    /\ entry = "simulate_day_events"
    /\ remaining = <<>>
    /\ IF DOMAIN agents = {}
       THEN /\ pc' = "raised"
            /\ exception' = "ValueError"
            /\ UNCHANGED final_time
       ELSE /\ pc' = "returned"
            /\ final_time' = CompletionTime(agents, time_passed)
            /\ UNCHANGED exception
    /\ UNCHANGED <<entry, num_agents, speed_m_s, trash_locations, capacity,
                   start, agents, remaining, time_passed, i_min, travel_time,
                   total_distance, assigned>>
    /\ UNCHANGED <<rvars, evars, kvars, cvars, svars, pvars, avars, lvars, vvars, tvars>>

Next ==
    \/ ConcEntry
    \/ ConcIterate
    \/ ConcReturn
    \/ DayEntry
    \/ DayAssign
    \/ DayCapacity
    \/ DayReturn

Spec == Init /\ [][Next]_vars

(* ------------------------- route constructor -------------------------- *)

\* nearest_neighbor_path, lines 34-38: the while loop.
RECURSIVE NearestNeighborLoop(_, _, _)
NearestNeighborLoop(path, rem, current_pos) ==
    IF rem = <<>> THEN path
    ELSE LET nearest == rem[NearestIdx(current_pos, rem)]
         IN NearestNeighborLoop(Append(path, nearest),
                                RemoveFirst(rem, nearest), nearest)

\* The slip of walking the tasks in the order given.
nearest_neighbor_path_InOrder(from, pts) == <<from>> \o pts

\* nearest_neighbor_path(start, trash_points), test.py lines 23-39
nearest_neighbor_path(from, pts) ==
    IF pts = <<>> THEN <<from>>
    ELSE NearestNeighborLoop(<<from>>, pts, from)

\* build_path_with_capacity, lines 78-82: the for loop that fills one chunk
\* with n tasks; gives the chunk and what remains.
RECURSIVE SubRoute(_, _, _, _)
SubRoute(sub_path, rem, current_pos, n) ==
    IF n = 0 THEN [sub_path |-> sub_path, remaining |-> rem]
    ELSE LET nearest == rem[NearestIdx(current_pos, rem)]
         IN SubRoute(Append(sub_path, nearest), RemoveFirst(rem, nearest),
                     nearest, n - 1)

\* The slip of "capacity + 1" in the range of the for loop.
ChunkSize_OffByOne(cap, rem) == Min2(cap + 1, Len(rem))

\* min(capacity, len(remaining)), line 78
ChunkSize(cap, rem) == Min2(cap, Len(rem))

\* The slip of going back to the bin only with a full load.
RECURSIVE CapacityLoop_FullOnly(_, _, _, _)
CapacityLoop_FullOnly(path, rem, bin, cap) ==
    IF rem = <<>> THEN path
    ELSE LET chunk == SubRoute(<<>>, rem, bin, ChunkSize(cap, rem))
             back == IF Len(chunk.sub_path) = cap THEN <<bin>> ELSE <<>>
         IN CapacityLoop_FullOnly((path \o chunk.sub_path) \o back,
                                  chunk.remaining, bin, cap)

\* The slip of leaving out "current_pos = bin_pos" (line 89): a chunk
\* starts from the last task of the chunk before.
RECURSIVE CapacityLoop_NoReset(_, _, _, _)
CapacityLoop_NoReset(path, rem, from, cap) ==
    IF rem = <<>> THEN path
    ELSE LET chunk == SubRoute(<<>>, rem, from, ChunkSize(cap, rem))
         IN CapacityLoop_NoReset((path \o chunk.sub_path) \o <<path[1]>>,
                chunk.remaining, chunk.sub_path[Len(chunk.sub_path)], cap)

\* build_path_with_capacity, lines 75-89: the while loop, one chunk and one
\* return to the bin per round; current_pos is bin_pos at every round.
RECURSIVE CapacityLoop(_, _, _, _)
CapacityLoop(path, rem, bin, cap) ==
    IF rem = <<>> THEN path
    ELSE LET chunk == SubRoute(<<>>, rem, bin, ChunkSize(cap, rem))
         IN CapacityLoop((path \o chunk.sub_path) \o <<bin>>,
                         chunk.remaining, bin, cap)

\* build_path_with_capacity(bin_pos, trash_points, capacity), test.py 41-91
build_path_with_capacity(bin, pts, cap) ==
    IF cap < 1
    THEN LET base == nearest_neighbor_path(bin, pts)
         IN IF Len(base) > 0 /\ base[Len(base)] # bin
            THEN Append(base, bin) ELSE base
    ELSE CapacityLoop(<<bin>>, pts, bin, cap)

RouteInit ==
    /\ DispatchIdle /\ EngineIdle /\ KinIdle /\ CollectorIdle /\ SplitIdle /\ PlaybackIdle /\ SoloIdle /\ LogIdle /\ ViewIdle /\ ClaudeIdle
    /\ rpc = "call"
    /\ \/ bin_pos \in Points /\ trash_points \in TaskLists
       \/ bin_pos = Origin /\ trash_points \in LineTaskLists
    /\ rcapacity \in Capacities
    /\ full_path = <<>>

\* A call of build_path_with_capacity / capacity_split_path.
BuildPath ==
    /\ rpc = "call"
    /\ rpc' = "returned"
    /\ full_path' = build_path_with_capacity(bin_pos, trash_points, rcapacity)
    /\ UNCHANGED <<bin_pos, trash_points, rcapacity>>
    /\ UNCHANGED <<dvars, evars, kvars, cvars, svars, pvars, avars, lvars, vvars, tvars>>

RouteNext == BuildPath

RouteSpec == RouteInit /\ [][RouteNext]_vars

(* ----------------- SimulationEngine and RoutePlanner ------------------ *)

\* new approach/simulation: engine.py, routing.py, agents.py, environment.py.
\* Positions are the integer points of the code; every comparison of
\* distances is made on their squares.  A HumanAgent is given a stride
\* (speed * dt) longer than any leg, so that min(distance, speed * dt) is
\* the distance and a move lands on the waypoint.  DroneAgent, whose update
\* opens with the same three lines, is left out: its velocity has no exact
\* counterpart here.

MaxFleet == 2
MaxTicks == 12
HumanStride == 500

\* RoutePlanner.trash_points
PlannerTrashPoints ==
    << <<100, 50>>, <<120, 80>>, <<200, 100>>, <<250, 150>> >>

Algorithms == {"nearest_neighbor", "tsp", "other"}

BinLists == { <<>>, << <<0, 0>> >>, << <<300, 150>>, <<0, 0>> >> }

\* BaseAgent.__init__ / HumanAgent.__init__
AgentSetups ==
    [kind : {"BaseAgent", "HumanAgent"},
     position : {Origin},
     route : {<<>>},
     current_index : {0},
     capacity : {1, 2, 10},
     current_load : {0},
     done : {FALSE}]

Fleets == UNION {[1..n -> AgentSetups] : n \in 0..MaxFleet}

SqDist(p, q) ==
    (p[1] - q[1]) * (p[1] - q[1]) + (p[2] - q[2]) * (p[2] - q[2])

\* The first index of pts at the least distance from pos.
NearestSq(pos, pts) ==
    CHOOSE i \in 1..Len(pts) :
        /\ \A j \in 1..Len(pts) : SqDist(pos, pts[i]) <= SqDist(pos, pts[j])
        /\ \A j \in 1..(i - 1) : SqDist(pos, pts[j]) > SqDist(pos, pts[i])

\* Environment.get_closest_bin: <<>> for None, else <<the bin>>.
get_closest_bin(bs, pos) ==
    IF bs = <<>> THEN <<>> ELSE <<bs[NearestSq(pos, bs)]>>

\* BaseAgent.needs_to_empty
needs_to_empty(load, cap) == load >= cap

\* The while loop of _nearest_neighbor_route; the result carries the load
\* the agent is left with.
RECURSIVE NearestNeighborRoute(_, _, _, _, _, _)
NearestNeighborRoute(rt, remaining_trash, current_pos, load, cap, bs) ==
    IF remaining_trash = <<>>
    THEN [route |-> rt, current_load |-> load]
    ELSE LET nearest_index == NearestSq(current_pos, remaining_trash)
             next_trash == remaining_trash[nearest_index]
             rest == RemoveAt(remaining_trash, nearest_index)
             closest == get_closest_bin(bs, next_trash)
         IN IF needs_to_empty(load + 1, cap)
            THEN NearestNeighborRoute(
                     Append(rt, next_trash) \o closest, rest,
                     IF closest # <<>> THEN closest[1] ELSE next_trash,
                     0, cap, bs)
            ELSE NearestNeighborRoute(
                     Append(rt, next_trash), rest, next_trash,
                     load + 1, cap, bs)

\* RoutePlanner._nearest_neighbor_route: every call starts from a copy of
\* the whole master list.
nearest_neighbor_route(ag, bs) ==
    NearestNeighborRoute(<<>>, PlannerTrashPoints, ag.position, 0,
                         ag.capacity, bs)

\* RoutePlanner.get_route_for_agent followed by BaseAgent.assign_route.
WithRoute(ag, alg, bs) ==
    IF alg = "nearest_neighbor"
    THEN LET r == nearest_neighbor_route(ag, bs)
         IN [ag EXCEPT !.route = r.route, !.current_index = 0,
                       !.current_load = r.current_load]
    ELSE [ag EXCEPT !.route = <<>>, !.current_index = 0]

\* BaseAgent.update
BaseUpdate(ag) ==
    IF ag.current_index >= Len(ag.route)
    THEN [ag EXCEPT !.done = TRUE]
    ELSE LET next_waypoint == ag.route[ag.current_index + 1]
         IN IF ag.position = next_waypoint
            THEN [ag EXCEPT !.current_index = @ + 1,
                            !.done = (ag.current_index + 1 >= Len(ag.route))]
            ELSE [ag EXCEPT !.position = next_waypoint]

\* HumanAgent.update reads self.route[self.current_index] before anything
\* else: IndexError on an empty route.
UpdateRaises(ag) ==
    /\ ag.kind = "HumanAgent"
    /\ ~ag.done
    /\ ag.current_index >= Len(ag.route)

\* HumanAgent.update, for an agent it does not raise on.
HumanUpdate(ag) ==
    IF ag.done
    THEN ag
    ELSE LET next_waypoint == ag.route[ag.current_index + 1]
         IN IF ag.position = next_waypoint
            THEN [ag EXCEPT !.current_index = @ + 1,
                            !.done = (ag.current_index + 1 >= Len(ag.route))]
            ELSE IF HumanStride * HumanStride >= SqDist(ag.position, next_waypoint)
                 THEN [ag EXCEPT !.position = next_waypoint]
                 ELSE ag

AgentUpdate(ag) ==
    IF ag.kind = "HumanAgent" THEN HumanUpdate(ag) ELSE BaseUpdate(ag)

\* SimulationEngine.update_agents from the k-th agent on: the agents are
\* updated in order, up to the first whose update raises.
RECURSIVE UpdateFrom(_, _)
UpdateFrom(fl, k) ==
    IF k > Len(fl)
    THEN [fleet |-> fl, raised |-> FALSE]
    ELSE IF UpdateRaises(fl[k])
         THEN [fleet |-> fl, raised |-> TRUE]
         ELSE UpdateFrom([fl EXCEPT ![k] = AgentUpdate(fl[k])], k + 1)

\* SimulationEngine.all_tasks_completed
all_tasks_completed(fl) == \A k \in 1..Len(fl) : fl[k].done

EngineInit ==
    /\ DispatchIdle /\ RouteIdle /\ KinIdle /\ CollectorIdle /\ SplitIdle /\ PlaybackIdle /\ SoloIdle /\ LogIdle /\ ViewIdle /\ ClaudeIdle
    /\ epc = "call"
    /\ algorithm \in Algorithms
    /\ bins \in BinLists
    /\ fleet \in Fleets
    /\ cursor = 0
    /\ current_time = 0
    /\ error = ""

\* SimulationEngine.run is entered.
EngineRun ==
    /\ epc = "call"
    /\ epc' = IF fleet = <<>> THEN "loop" ELSE "routes"
    /\ cursor' = 1
    /\ UNCHANGED <<algorithm, bins, fleet, current_time, error>>
    /\ UNCHANGED <<dvars, rvars, kvars, cvars, svars, pvars, avars, lvars, vvars, tvars>>

\* One pass of the route loop of run.
EngineAssign ==
    /\ epc = "routes"
    /\ fleet' = [fleet EXCEPT ![cursor] = WithRoute(@, algorithm, bins)]
    /\ cursor' = cursor + 1
    /\ epc' = IF cursor = Len(fleet) THEN "loop" ELSE "routes"
    /\ UNCHANGED <<algorithm, bins, current_time, error>>
    /\ UNCHANGED <<dvars, rvars, kvars, cvars, svars, pvars, avars, lvars, vvars, tvars>>

\* One pass of the while loop of run: update_agents and the clock.
EngineTick ==
    /\ epc = "loop"
    /\ current_time < MaxTicks
    /\ ~all_tasks_completed(fleet)
    /\ LET u == UpdateFrom(fleet, 1)
       IN /\ fleet' = u.fleet
          /\ IF u.raised
             THEN /\ epc' = "raised"
                  /\ error' = "IndexError"
                  /\ UNCHANGED current_time
             ELSE /\ current_time' = current_time + 1
                  /\ UNCHANGED <<epc, error>>
    /\ UNCHANGED <<algorithm, bins, cursor>>
    /\ UNCHANGED <<dvars, rvars, kvars, cvars, svars, pvars, avars, lvars, vvars, tvars>>

\* The while loop ends: every agent is done or max_time is reached.
EngineFinish ==
    /\ epc = "loop"
    /\ current_time >= MaxTicks \/ all_tasks_completed(fleet)
    /\ epc' = "finished"
    /\ UNCHANGED <<algorithm, bins, fleet, cursor, current_time, error>>
    /\ UNCHANGED <<dvars, rvars, kvars, cvars, svars, pvars, avars, lvars, vvars, tvars>>

EngineNext == EngineRun \/ EngineAssign \/ EngineTick \/ EngineFinish

EngineSpec == EngineInit /\ [][EngineNext]_vars

(* ------------------------- the moving Agent --------------------------- *)

\* Agent.update and Agent.move_along_route of new.py, for an agent without
\* acceleration; the human of SideBySideCanvas.update_simulation (test.py)
\* runs the same arithmetic on human_-prefixed fields.
\*
\* Numbers.  The code computes in binary floating point: the result of
\* every operation is the nearest number with a significand of so many
\* bits, ties going to the even one.  The significand has MantissaBits bits
\* here (53 in the build) and a number is held as its count of units of
\* 2^-FracBits, the finest spacing.

MantissaBits == 5
FracBits == 10
MaxSeconds == 6

Unit == 2 ^ FracBits

\* The spacing of the representable numbers around the magnitude a.
Quantum(a) ==
    IF a < 2 ^ MantissaBits THEN 1
    ELSE LET e == CHOOSE k \in MantissaBits..20 : 2 ^ k <= a /\ a < 2 ^ (k + 1)
         IN 2 ^ (e - MantissaBits + 1)

\* n / d (d > 0) rounded to the nearest representable number.
RoundTo(n, d) ==
    LET mag == Abs(n)
        dq == d * Quantum(mag \div d)
        k == mag \div dq
        r == mag % dq
        up == 2 * r > dq \/ (2 * r = dq /\ k % 2 = 1)
        res == (IF up THEN k + 1 ELSE k) * Quantum(mag \div d)
    IN IF n < 0 THEN 0 - res ELSE res

FAdd(a, b) == RoundTo(a + b, 1)

FSub(a, b) == RoundTo(a - b, 1)

FMul(a, b) == RoundTo(a * b, Unit)

FDiv(a, b) == RoundTo(a * Unit, b)

\* The largest r of lo .. hi - 1 with r * r <= n.
RECURSIVE FloorSqrtIn(_, _, _)
FloorSqrtIn(lo, hi, n) ==
    IF hi - lo <= 1 THEN lo
    ELSE LET mid == (lo + hi) \div 2
         IN IF mid * mid <= n THEN FloorSqrtIn(mid, hi, n)
            ELSE FloorSqrtIn(lo, mid, n)

\* The square root of n rounded to the nearest representable number.
RoundSqrt(n) ==
    LET r == FloorSqrtIn(0, 16 * Unit, n)
        q == Quantum(r)
        k == r \div q
        lo == k * q
        mid2 == (2 * lo + q) * (2 * lo + q)
    IN IF 4 * n > mid2 \/ (4 * n = mid2 /\ k % 2 = 1) THEN lo + q ELSE lo

\* math.hypot(p1[0] - p2[0], p1[1] - p2[1])
FHypot(p1, p2) ==
    LET dx == FSub(p1[1], p2[1])
        dy == FSub(p1[2], p2[2])
    IN RoundSqrt(dx * dx + dy * dy)

\* The point p in units.
InUnits(p) == <<p[1] * Unit, p[2] * Unit>>

\* The time deltas of a tick: 0.5 s, 1 s and 4 s.
TickDeltas == {Unit \div 2, Unit, 4 * Unit}

\* Routes from the depot to a point, one way or there and back.
KinRoutes ==
    {<<InUnits(Origin), InUnits(p)>> : p \in Points \ {Origin}} \cup
    {<<InUnits(Origin), InUnits(p), InUnits(Origin)>> : p \in Points \ {Origin}}

KinInit ==
    /\ DispatchIdle /\ RouteIdle /\ EngineIdle /\ CollectorIdle /\ SplitIdle /\ PlaybackIdle /\ SoloIdle /\ LogIdle /\ ViewIdle /\ ClaudeIdle
    /\ route \in KinRoutes
    /\ speed \in {Unit, 2 * Unit}
    /\ pickup_time \in {0, Unit}
    /\ trash_positions \in {<<>>, <<route[2]>>}
    /\ position_index = 0
    /\ current_position = route[1]
    /\ pickup_timer = 0
    /\ distance_traveled = 0
    /\ total_time = 0
    /\ collected_positions = {}
    /\ dwell = 0

\* The slip of leaving out the clamp of the pickup timer.
ClampTimer_None(t) == t

\* The clamp of the pickup timer, new.py lines 202-203
ClampTimer(t) == IF t < 0 THEN 0 ELSE t

\* Agent.update(dt): the pickup timer runs down, or the agent moves along
\* its route, and the time is counted.
KinTick ==
    \E dt \in TickDeltas :
        /\ route # <<>>
        /\ total_time + dt <= MaxSeconds * Unit
        /\ total_time' = FAdd(total_time, dt)
        /\ IF pickup_timer > 0
           THEN /\ pickup_timer' = ClampTimer(FSub(pickup_timer, dt))
                /\ dwell' = dwell + dt
                /\ UNCHANGED <<position_index, current_position,
                               distance_traveled, trash_positions,
                               collected_positions>>
           ELSE IF position_index >= Len(route) - 1
                THEN UNCHANGED <<position_index, current_position,
                                 distance_traveled, trash_positions,
                                 collected_positions, pickup_timer, dwell>>
                ELSE LET next_pos == route[position_index + 2]
                         dist == FHypot(current_position, next_pos)
                         step_dist == FMul(speed, dt)
                         ratio == FDiv(step_dist, dist)
                     IN IF step_dist >= dist
                        THEN /\ current_position' = next_pos
                             /\ distance_traveled' =
                                  FAdd(distance_traveled, dist)
                             /\ position_index' = position_index + 1
                             /\ IF \E k \in 1..Len(trash_positions) :
                                      trash_positions[k] = next_pos
                                THEN /\ trash_positions' =
                                          RemoveFirst(trash_positions, next_pos)
                                     /\ collected_positions' =
                                          collected_positions \cup {next_pos}
                                     /\ pickup_timer' = pickup_time
                                     /\ dwell' = 0
                                ELSE UNCHANGED <<trash_positions,
                                                 collected_positions,
                                                 pickup_timer, dwell>>
                        ELSE /\ current_position' =
                                  <<FAdd(current_position[1],
                                      FMul(ratio, FSub(next_pos[1],
                                                       current_position[1]))),
                                    FAdd(current_position[2],
                                      FMul(ratio, FSub(next_pos[2],
                                                       current_position[2])))>>
                             /\ distance_traveled' =
                                  FAdd(distance_traveled, step_dist)
                             /\ UNCHANGED <<position_index, trash_positions,
                                            collected_positions, pickup_timer,
                                            dwell>>
        /\ UNCHANGED <<route, speed, pickup_time>>
        /\ UNCHANGED <<dvars, rvars, evars, cvars, svars, pvars, avars, lvars, vvars, tvars>>

KinNext == KinTick

KinSpec == KinInit /\ [][KinNext]_vars

(* -------------------------- TrashCollector ---------------------------- *)

\* Mathimatical model from scratch: trashCollector.py, simulator.py,
\* environment.py, utils.py.  A collector is called MaxCalls times, with
\* return_home or through Simulator.calc_time.  Times are in ticks, as for
\* the dispatcher.

MaxCalls == 3

\* TrashCollector.__init__
NewCollector(sp, cap) ==
    [speed |-> sp, capacity_items |-> cap, current_items |-> 0,
     current_weight |-> 0, x |-> 0, y |-> 0, total_time |-> 0]

\* TrashCollector.return_home: the position is overwritten first, and the
\* distance is then taken from the new position to the bin.
return_home(c, bin_x, bin_y) ==
    LET moved == [c EXCEPT !.x = bin_x, !.y = bin_y,
                           !.current_items = 0, !.current_weight = 0]
        dis == distance(<<moved.x, moved.y>>, <<bin_x, bin_y>>)
    IN [moved EXCEPT !.total_time = @ + TravelTime(dis, moved.speed)]

CollectorInit ==
    /\ DispatchIdle /\ RouteIdle /\ EngineIdle /\ KinIdle /\ SplitIdle /\ PlaybackIdle /\ SoloIdle /\ LogIdle /\ ViewIdle /\ ClaudeIdle
    /\ \E sp \in {1, 2}, cap \in 1..MaxCapacity : collector = NewCollector(sp, cap)
    /\ sized \in BOOLEAN
    /\ trash_list \in TaskLists
    /\ call = [n |-> 0]
    /\ cerror = ""

\* collector.return_home(bin_x, bin_y)
ReturnHome ==
    \E b \in Depots :
        /\ call.n < MaxCalls
        /\ call' = [n |-> call.n + 1, op |-> "return_home", bin |-> b]
        /\ collector' = return_home(collector, b[1], b[2])
        /\ cerror' = ""
        /\ UNCHANGED <<sized, trash_list>>
        /\ UNCHANGED <<dvars, rvars, evars, kvars, svars, pvars, avars, lvars, vvars, tvars>>

\* Simulator.calc_time(collector, environment).  len() of the integer
\* number_of_trash raises TypeError (line 20).  Where len() is defined the
\* first pass takes the closest trash and moves the collector to it
\* (lines 22-27), and the read of collector.max_weight, an attribute no
\* TrashCollector has, raises AttributeError (line 30); with no trash left,
\* closest_trash returns (None, None) and trash.x raises it (line 25).
CalcTime ==
    /\ call.n < MaxCalls
    /\ call' = [n |-> call.n + 1, op |-> "calc_time"]
    /\ IF ~sized
       THEN /\ cerror' = "TypeError"
            /\ UNCHANGED <<collector, trash_list>>
       ELSE IF trash_list = <<>>
       THEN /\ cerror' = "AttributeError"
            /\ UNCHANGED <<collector, trash_list>>
       ELSE LET here == <<collector.x, collector.y>>
                k == NearestIdx(here, trash_list)
                trash == trash_list[k]
            IN /\ trash_list' = RemoveAt(trash_list, k)
               /\ collector' =
                    [collector EXCEPT
                        !.x = trash[1], !.y = trash[2],
                        !.total_time =
                            @ + TravelTime(distance(here, trash), collector.speed)]
               /\ cerror' = "AttributeError"
    /\ UNCHANGED sized
    /\ UNCHANGED <<dvars, rvars, evars, kvars, svars, pvars, avars, lvars, vvars, tvars>>

CollectorNext == ReturnHome \/ CalcTime

CollectorSpec == CollectorInit /\ [][CollectorNext]_vars

(* --------------------- split_trash_among_drones ----------------------- *)

\* test.py:93-105 and new.py:739-749.  The task list is sorted by distance
\* from the start and dealt out to the drones in turn.

MaxDrones == 3

SplitTaskLists == UNION {[1..n -> RoutePoints] : n \in 0..MaxTasks}

\* The slip of an unstable sort: a point goes in before the points as far
\* as it is.
RECURSIVE InsertByDistance_BeforeEqual(_, _, _)
InsertByDistance_BeforeEqual(from, srt, p) ==
    IF srt = <<>> THEN <<p>>
    ELSE IF distance(from, p) <= distance(from, srt[1]) THEN <<p>> \o srt
    ELSE <<srt[1]>> \o InsertByDistance_BeforeEqual(from, Tail(srt), p)

\* One point put into a list sorted by distance from "from", after the
\* points that are as far as it is (sorted is stable).
RECURSIVE InsertByDistance(_, _, _)
InsertByDistance(from, srt, p) ==
    IF srt = <<>> THEN <<p>>
    ELSE IF distance(from, p) < distance(from, srt[1]) THEN <<p>> \o srt
    ELSE <<srt[1]>> \o InsertByDistance(from, Tail(srt), p)

\* sorted(trash_points, key=lambda p: distance(start, p))
RECURSIVE SortedByDistance(_, _)
SortedByDistance(from, pts) ==
    IF pts = <<>> THEN <<>>
    ELSE InsertByDistance(from, SortedByDistance(from, SubSeq(pts, 1, Len(pts) - 1)),
                          pts[Len(pts)])

\* The dealing loop: sorted_trash[k] is appended to assignments[idx], and
\* idx moves on by one modulo num_drones (idx counts from 0 in the code).
RECURSIVE DealOut(_, _, _, _, _)
DealOut(asg, sorted_trash, k, idx, n) ==
    IF k > Len(sorted_trash) THEN asg
    ELSE DealOut([asg EXCEPT ![idx + 1] = Append(@, sorted_trash[k])],
                 sorted_trash, k + 1, (idx + 1) % n, n)

split_trash_among_drones(pts, n, from) ==
    DealOut([i \in 1..n |-> <<>>], SortedByDistance(from, pts), 1, 0, n)

SplitInit ==
    /\ DispatchIdle /\ RouteIdle /\ EngineIdle /\ KinIdle /\ CollectorIdle /\ PlaybackIdle /\ SoloIdle /\ LogIdle /\ ViewIdle /\ ClaudeIdle
    /\ spc = "call"
    /\ \/ bin_position \in Depots /\ drone_trash \in TaskLists
       \/ bin_position = Origin /\ drone_trash \in SplitTaskLists
    /\ num_drones \in 0..MaxDrones
    /\ assignments = <<>>
    /\ serror = ""

\* A call with at least one drone, or with nothing to deal out.
SplitReturn ==
    /\ spc = "call"
    /\ num_drones >= 1 \/ drone_trash = <<>>
    /\ spc' = "returned"
    /\ assignments' = split_trash_among_drones(drone_trash, num_drones, bin_position)
    /\ UNCHANGED <<drone_trash, num_drones, bin_position, serror>>
    /\ UNCHANGED <<dvars, rvars, evars, kvars, cvars, pvars, avars, lvars, vvars, tvars>>

\* A call with no drone and a task to deal out: assignments is the empty
\* list and assignments[0] raises IndexError (line 103).
SplitRaise ==
    /\ spc = "call"
    /\ num_drones < 1 /\ drone_trash # <<>>
    /\ spc' = "raised"
    /\ serror' = "IndexError"
    /\ UNCHANGED <<drone_trash, num_drones, bin_position, assignments>>
    /\ UNCHANGED <<dvars, rvars, evars, kvars, cvars, pvars, avars, lvars, vvars, tvars>>

SplitNext == SplitReturn \/ SplitRaise

SplitSpec == SplitInit /\ [][SplitNext]_vars

(* ------------------------ the playback of new.py ---------------------- *)

\* MainWindow.start_simulation builds one HumanAgent and the DroneAgents on
\* one SimulationEnvironment, and SimulationVisualizer.update_frame updates
\* them in list order until every route is finished.  Numbers are those of
\* the moving Agent above.  A frame may last 32 s: at this precision the
\* fatigue of a HumanAgent shows on such a frame only.

MaxPlayTasks == 2
MaxFrames == 5

FrameDeltas == {Unit \div 2, Unit, 32 * Unit}

PlayTaskLists ==
    UNION {[1..n -> Points \ {Origin}] : n \in 0..MaxPlayTasks}

\* HumanAgent.fatigue_factor, 0.0005, and the speed floor 0.1
fatigue_factor == RoundTo(Unit, 2000)

SpeedFloor == RoundTo(Unit, 10)

\* DroneAgent.energy_rate, 1.0
energy_rate == Unit

\* The route rt with its points in units.
RouteInUnits(rt) == [k \in 1..Len(rt) |-> InUnits(rt[k])]

\* Agent.__init__
PlayAgent(kind, rt, sp, acc, maxsp, pt) ==
    [kind |-> kind, route |-> rt, position_index |-> 0,
     current_position |-> rt[1], speed |-> sp, acceleration |-> acc,
     max_speed |-> maxsp, pickup_time |-> pt, pickup_timer |-> 0,
     distance_traveled |-> 0, total_time |-> 0, collected_positions |-> {},
     energy_consumed |-> 0]

\* move_along_route, lines 228-236: the agent is put on next_pos, and picks
\* up the trash there if the environment still lists it.
Arrive(ag, trash, next_pos, dist, sp) ==
    IF \E k \in 1..Len(trash) : trash[k] = next_pos
    THEN [agent |->
              [ag EXCEPT !.speed = sp,
                         !.current_position = next_pos,
                         !.distance_traveled = FAdd(@, dist),
                         !.position_index = @ + 1,
                         !.collected_positions = @ \cup {next_pos},
                         !.pickup_timer = ag.pickup_time],
          trash |-> RemoveFirst(trash, next_pos)]
    ELSE [agent |->
              [ag EXCEPT !.speed = sp,
                         !.current_position = next_pos,
                         !.distance_traveled = FAdd(@, dist),
                         !.position_index = @ + 1],
          trash |-> trash]

\* move_along_route, lines 238-244: a part of the way to next_pos.
MovePartially(ag, next_pos, sp, step_dist, ratio) ==
    [ag EXCEPT
        !.speed = sp,
        !.current_position =
            <<FAdd(@[1], FMul(ratio, FSub(next_pos[1], @[1]))),
              FAdd(@[2], FMul(ratio, FSub(next_pos[2], @[2])))>>,
        !.distance_traveled = FAdd(@, step_dist)]

\* move_along_route, lines 226-244, with the step of this frame.
MoveBy(ag, trash, next_pos, dist, sp, step_dist) ==
    IF step_dist >= dist
    THEN Arrive(ag, trash, next_pos, dist, sp)
    ELSE [agent |-> MovePartially(ag, next_pos, sp, step_dist,
                                  FDiv(step_dist, dist)),
          trash |-> trash]

\* move_along_route, lines 219-221: the speed after the acceleration.
Accelerated(ag, dt) ==
    IF ag.acceleration # 0
    THEN Min2(FAdd(ag.speed, FMul(ag.acceleration, dt)), ag.max_speed)
    ELSE ag.speed

\* move_along_route, from the speed of this frame on.
MoveAt(ag, trash, dt, next_pos, sp) ==
    MoveBy(ag, trash, next_pos, FHypot(ag.current_position, next_pos), sp,
           FMul(sp, dt))

\* Agent.move_along_route(dt) on the trash list of the environment; gives
\* the agent and the list after the move.
move_along_route(ag, trash, dt) ==
    IF ag.position_index >= Len(ag.route) - 1
    THEN [agent |-> ag, trash |-> trash]
    ELSE MoveAt(ag, trash, dt, ag.route[ag.position_index + 2],
                Accelerated(ag, dt))

\* Agent.update(dt), lines 200-205: the timer runs down or the agent moves.
TimerOrMove(ag, trash, dt) ==
    IF ag.pickup_timer > 0
    THEN [agent |-> [ag EXCEPT !.pickup_timer = ClampTimer(FSub(@, dt))],
          trash |-> trash]
    ELSE move_along_route(ag, trash, dt)

\* Agent.update(dt)
Agent_update(ag, trash, dt) ==
    [TimerOrMove(ag, trash, dt) EXCEPT !.agent.total_time = FAdd(@, dt)]

\* The slip of leaving out the floor of the speed.
FloorSpeed_None(sp) == sp

\* The floor of a HumanAgent's speed, lines 272-273
FloorSpeed(sp) == IF sp < SpeedFloor THEN SpeedFloor ELSE sp

\* The fatigue of a HumanAgent, lines 270-271
Fatigued(sp, dt) ==
    IF sp > 0 THEN FSub(sp, FMul(FMul(sp, fatigue_factor), dt)) ELSE sp

\* HumanAgent.update(dt): the fatigue, the floor of the speed, then
\* Agent.update.
HumanAgent_update(ag, trash, dt) ==
    Agent_update([ag EXCEPT !.speed = FloorSpeed(Fatigued(@, dt))], trash, dt)

\* DroneAgent.update(dt): the energy, then Agent.update.
DroneAgent_update(ag, trash, dt) ==
    Agent_update(
        [ag EXCEPT !.energy_consumed =
            FAdd(@, FMul(FMul(ag.speed, energy_rate), dt))],
        trash, dt)

\* agent.update(dt), by the class of the agent
UpdateOne(ag, trash, dt) ==
    IF ag.kind = "HumanAgent" THEN HumanAgent_update(ag, trash, dt)
    ELSE DroneAgent_update(ag, trash, dt)

\* The loop of update_frame over self.agents, from the k-th agent on; u is
\* the outcome of the update of the k-th agent.
RECURSIVE UpdateAll(_, _, _, _)
UpdateRest(ags, k, dt, u) ==
    UpdateAll([ags EXCEPT ![k] = u.agent], u.trash, k + 1, dt)

UpdateAll(ags, trash, k, dt) ==
    IF k > Len(ags) THEN [agents |-> ags, trash |-> trash]
    ELSE UpdateRest(ags, k, dt, UpdateOne(ags[k], trash, dt))

\* The agent has finished its route.
RouteDone(ag) == ag.position_index >= Len(ag.route) - 1

\* start_simulation: the routes of the human and of the drones, from the
\* bin at the origin, over the same trash list.
PlaybackInit ==
    /\ DispatchIdle /\ RouteIdle /\ EngineIdle /\ KinIdle /\ CollectorIdle
    /\ SplitIdle /\ SoloIdle /\ LogIdle /\ ViewIdle /\ ClaudeIdle
    /\ play_tasks \in PlayTaskLists
    /\ env_trash = RouteInUnits(play_tasks)
    /\ \E n_drones \in 1..MaxFleet, human_capacity \in {0, 1},
          drone_capacity \in {0, 1} :
          LET splitted == split_trash_among_drones(play_tasks, n_drones, Origin)
              human == PlayAgent("HumanAgent",
                           RouteInUnits(build_path_with_capacity(
                               Origin, play_tasks, human_capacity)),
                           Unit, 0, 2 * Unit, Unit)
              drone(i) == PlayAgent("DroneAgent",
                              RouteInUnits(build_path_with_capacity(
                                  Origin, splitted[i], drone_capacity)),
                              0, 2 * Unit, 2 * Unit, Unit)
          IN frame_agents = <<human>> \o [i \in 1..n_drones |-> drone(i)]
    /\ frames = 0
    /\ frame_dt = 0
    /\ playing = TRUE
    /\ alone = [k \in 1..Len(frame_agents) |->
                   [agent |-> frame_agents[k], trash |-> env_trash]]

\* update_frame, lines 432-433 and 484-488: the agents and the trash list
\* after the updates, and the timer stopped once every route is finished.
FrameOutcome(u) ==
    /\ frame_agents' = u.agents
    /\ env_trash' = u.trash
    /\ playing' = ~(\A k \in 1..Len(u.agents) : RouteDone(u.agents[k]))

\* SimulationVisualizer.update_frame: every agent is updated with the same
\* dt.
UpdateFrame ==
    \E dt \in FrameDeltas :
        /\ playing
        /\ frames < MaxFrames
        /\ FrameOutcome(UpdateAll(frame_agents, env_trash, 1, dt))
        /\ frames' = frames + 1
        /\ frame_dt' = dt
        /\ alone' = [k \in 1..Len(alone) |->
                        UpdateOne(alone[k].agent, alone[k].trash, dt)]
        /\ UNCHANGED play_tasks
        /\ UNCHANGED <<dvars, rvars, evars, kvars, cvars, svars, avars, lvars, vvars, tvars>>

PlaybackNext == UpdateFrame

PlaybackSpec == PlaybackInit /\ [][PlaybackNext]_vars

(* ------------------------- a HumanAgent alone ------------------------- *)

\* HumanAgent.update of new.py (the same lines in Mathimatical model using
\* 03/UI.py) on one agent, from any starting speed and with tick deltas
\* from zero on.

GroundSpeeds == {0 - Unit, 0, Unit \div 16, Unit \div 8, Unit}

GroundDeltas == {0, Unit \div 2, 32 * Unit}

\* One HumanAgent on a route from the bin to a point and back; the point
\* holds trash or not.
GroundInit ==
    /\ DispatchIdle /\ RouteIdle /\ EngineIdle /\ KinIdle /\ CollectorIdle
    /\ SplitIdle /\ SoloIdle /\ LogIdle /\ ViewIdle /\ ClaudeIdle
    /\ play_tasks \in {<<>>} \cup {<<p>> : p \in Points \ {Origin}}
    /\ env_trash = RouteInUnits(play_tasks)
    /\ \E p \in Points \ {Origin}, sp \in GroundSpeeds :
          /\ play_tasks \in {<<>>, <<p>>}
          /\ frame_agents =
                <<PlayAgent("HumanAgent", RouteInUnits(<<Origin, p, Origin>>),
                            sp, 0, 2 * Unit, Unit)>>
    /\ frames = 0
    /\ frame_dt = 0
    /\ playing = TRUE
    /\ alone = [k \in 1..Len(frame_agents) |->
                   [agent |-> frame_agents[k], trash |-> env_trash]]

\* human.update(dt)
GroundTick ==
    \E dt \in GroundDeltas :
        /\ playing
        /\ frames < MaxFrames
        /\ FrameOutcome(UpdateAll(frame_agents, env_trash, 1, dt))
        /\ frames' = frames + 1
        /\ frame_dt' = dt
        /\ alone' = [k \in 1..Len(alone) |->
                        UpdateOne(alone[k].agent, alone[k].trash, dt)]
        /\ UNCHANGED play_tasks
        /\ UNCHANGED <<dvars, rvars, evars, kvars, cvars, svars, avars, lvars, vvars, tvars>>

GroundNext == GroundTick

GroundSpec == GroundInit /\ [][GroundNext]_vars

(* ------------------ one agent of simulation/agents.py ------------------ *)

\* HumanAgent.update of simulation/agents.py, called again and again with
\* one time step, as the loop of SimulationEngine.run does.  Lengths are
\* in thousandths of a metre, the fatigue in hundredths, the time step in
\* half seconds; the waypoints lie on the x axis, where cos(angle) is 1 or
\* -1 and the sine moves the agent by less than 1e-15.

Milli == 1000

Percent == 100

StepsPerSecond == 2

MaxLeg == 3

\* fatigue_rate, in hundredths a second
FatigueRates == {0, 20, 50}

TimeSteps == {1, 2}

\* the "distance < 0.01" of line 80
AtWaypoint == Milli \div 100

\* the "self.fatigue -= 0.05" of line 85
Recovery == Percent \div 20

WalkRoutes ==
    LET Stops == {<<x * Milli, 0>> : x \in 0..MaxLeg}
    IN  {<<p>> : p \in Stops} \cup {<<p, q>> : p \in Stops, q \in Stops}

Magnitude(x) == IF x < 0 THEN 0 - x ELSE x

\* speed * dt, with speed = max_speed * (1 - fatigue), line 75
SpeedTimesDt(ag, dt) ==
    (ag.max_speed * (Percent - ag.fatigue) * dt) \div (Percent * StepsPerSecond)

\* lines 81-86
HumanReach(ag) ==
    [ag EXCEPT !.current_index = ag.current_index + 1,
               !.done = ag.current_index + 1 >= Len(ag.route),
               !.fatigue = IF ag.fatigue - Recovery < 0 THEN 0
                           ELSE ag.fatigue - Recovery]

\* lines 88-96
HumanWalk(ag, dt, dx, move_dist) ==
    [ag EXCEPT !.position = <<ag.position[1] +
                                  (IF dx < 0 THEN 0 - move_dist ELSE move_dist),
                              ag.position[2]>>,
               !.fatigue = Min2(ag.fatigue + (ag.fatigue_rate * dt) \div StepsPerSecond,
                                Percent)]

\* HumanAgent.update(dt, environment)
Human_update(ag, dt) ==
    IF ag.done THEN ag
    ELSE LET dx == ag.route[ag.current_index + 1][1] - ag.position[1]
         IN  IF Magnitude(dx) < AtWaypoint
             THEN HumanReach(ag)
             ELSE HumanWalk(ag, dt, dx, Min2(Magnitude(dx), SpeedTimesDt(ag, dt)))

\* HumanAgent("h", max_speed=1.0, fatigue_rate=...), then assign_route
WalkInit ==
    /\ DispatchIdle /\ RouteIdle /\ EngineIdle /\ KinIdle /\ CollectorIdle
    /\ SplitIdle /\ PlaybackIdle /\ LogIdle /\ ViewIdle /\ ClaudeIdle
    /\ time_step \in TimeSteps
    /\ \E rt \in WalkRoutes, rate \in FatigueRates :
          solo = [kind |-> "HumanAgent", position |-> Origin, route |-> rt,
                  current_index |-> 0, done |-> FALSE, max_speed |-> Milli,
                  fatigue_rate |-> rate, fatigue |-> 0]

\* one iteration of "while ... and not self.all_tasks_completed()"
WalkTick ==
    /\ solo.kind = "HumanAgent"
    /\ ~solo.done
    /\ solo' = Human_update(solo, time_step)
    /\ UNCHANGED time_step
    /\ UNCHANGED <<dvars, rvars, evars, kvars, cvars, svars, pvars, lvars, vvars, tvars>>

WalkNext == WalkTick

WalkSpec == WalkInit /\ [][WalkNext]_vars

\* The loop goes on while the agent is not done.
WalkLive == WalkSpec /\ WF_vars(WalkTick)

\* DroneAgent.update of simulation/agents.py, in the reduced-precision
\* numbers of the moving Agent, with the waypoints on the x axis: there
\* cos(angle) is 1 or -1, math.sqrt(dx * dx + 0.0) is abs(dx), and the
\* sine of the angle changes the y parts by less than 1e-15.

MaxUpdates == 8

DroneSpeeds == {RoundTo(7 * Unit, 10), Unit, 3 * Unit}

DroneAccels == {Unit, RoundTo(3 * Unit, 10)}

DroneSteps == {Unit \div 2, Unit}

\* the "distance < 0.1" of line 115
NearWaypoint == RoundTo(Unit, 10)

FlightRoutes ==
    {<<InUnits(<<3, 0>>)>>, <<InUnits(<<9, 0>>)>>,
     <<InUnits(<<3, 0>>), InUnits(Origin)>>}

\* lines 133-136: new_vx after the cap
CapSpeed(new_vx, max_speed) ==
    IF Abs(new_vx) > max_speed
    THEN FMul(new_vx, FDiv(max_speed, Abs(new_vx)))
    ELSE new_vx

\* lines 138-144
DroneFly(ag, dt, vx) ==
    [ag EXCEPT !.velocity = <<vx, ag.velocity[2]>>,
               !.position = <<FAdd(ag.position[1], FMul(vx, dt)), ag.position[2]>>,
               !.updates = ag.updates + 1]

\* lines 115-119
DroneReach(ag) ==
    [ag EXCEPT !.current_index = ag.current_index + 1,
               !.done = ag.current_index + 1 >= Len(ag.route),
               !.updates = ag.updates + 1]

\* DroneAgent.update(dt, environment)
Drone_update(ag, dt) ==
    IF ag.done THEN ag
    ELSE LET dx == FSub(ag.route[ag.current_index + 1][1], ag.position[1])
         IN  IF Abs(dx) < NearWaypoint
             THEN DroneReach(ag)
             ELSE DroneFly(ag, dt,
                     CapSpeed(FAdd(ag.velocity[1],
                                   FMul(IF dx < 0 THEN 0 - ag.max_accel
                                        ELSE ag.max_accel, dt)),
                              ag.max_speed))

\* DroneAgent("d", max_acceleration=..., max_speed=...), then assign_route
FlightInit ==
    /\ DispatchIdle /\ RouteIdle /\ EngineIdle /\ KinIdle /\ CollectorIdle
    /\ SplitIdle /\ PlaybackIdle /\ LogIdle /\ ViewIdle /\ ClaudeIdle
    /\ time_step \in DroneSteps
    /\ \E rt \in FlightRoutes, ma \in DroneAccels, ms \in DroneSpeeds :
          solo = [kind |-> "DroneAgent", position |-> Origin, route |-> rt,
                  current_index |-> 0, done |-> FALSE, velocity |-> <<0, 0>>,
                  max_accel |-> ma, max_speed |-> ms, updates |-> 0]

\* one iteration of the loop of run
FlightTick ==
    /\ solo.kind = "DroneAgent"
    /\ ~solo.done
    /\ solo.updates < MaxUpdates
    /\ solo' = Drone_update(solo, time_step)
    /\ UNCHANGED time_step
    /\ UNCHANGED <<dvars, rvars, evars, kvars, cvars, svars, pvars, lvars, vvars, tvars>>

FlightNext == FlightTick

FlightSpec == FlightInit /\ [][FlightNext]_vars

(* ------------------- the loop of SimulationEngine.run ------------------ *)

\* The while loop of run with its clock and its log: current_time,
\* time_step and max_time are numbers of the reduced precision, added with
\* rounding as the doubles of the code are.  The routes have been assigned.

ClockSteps == {RoundTo(Unit, 10), RoundTo(3 * Unit, 10), Unit \div 2}

MaxTimes == {Unit, 2 * Unit, 3 * Unit}

RunInit ==
    /\ DispatchIdle /\ RouteIdle /\ KinIdle /\ CollectorIdle /\ SplitIdle
    /\ PlaybackIdle /\ ViewIdle /\ ClaudeIdle
    /\ epc = "loop"
    /\ algorithm \in Algorithms
    /\ bins \in BinLists
    /\ \E setup \in AgentSetups : fleet = <<WithRoute(setup, algorithm, bins)>>
    /\ cursor = 2
    /\ current_time = 0
    /\ error = ""
    /\ solo = [kind |-> "none"]
    /\ time_step \in ClockSteps
    /\ logs = <<>>
    /\ max_time \in MaxTimes

\* lines 40-44, for the outcome u of update_agents: an update that raises
\* ends run before the clock and the log are touched.
LoopOutcome(u) ==
    /\ fleet' = u.fleet
    /\ IF u.raised
       THEN /\ epc' = "raised"
            /\ error' = "IndexError"
            /\ UNCHANGED <<current_time, logs>>
       ELSE /\ current_time' = FAdd(current_time, time_step)
            /\ logs' = Append(logs, FAdd(current_time, time_step))
            /\ UNCHANGED <<epc, error>>

\* One iteration of "while self.current_time < max_time and not
\* self.all_tasks_completed()".
RunLoop ==
    /\ epc = "loop"
    /\ current_time < max_time
    /\ ~all_tasks_completed(fleet)
    /\ LoopOutcome(UpdateFrom(fleet, 1))
    /\ UNCHANGED <<algorithm, bins, cursor, solo, time_step, max_time>>
    /\ UNCHANGED <<dvars, rvars, kvars, cvars, svars, pvars, vvars, tvars>>

\* The condition of the while loop is false.
RunEnd ==
    /\ epc = "loop"
    /\ ~(current_time < max_time) \/ all_tasks_completed(fleet)
    /\ epc' = "finished"
    /\ UNCHANGED <<algorithm, bins, fleet, cursor, current_time, error>>
    /\ UNCHANGED <<dvars, rvars, kvars, cvars, svars, pvars, avars, lvars, vvars, tvars>>

RunNext == RunLoop \/ RunEnd

RunSpec == RunInit /\ [][RunNext]_vars

(* ------------- simulate_day_events in rounded arithmetic -------------- *)

\* simulate_day_events once more, for at least one agent and a speed above
\* zero, with its times in the reduced-precision numbers of the moving
\* Agent: every sum, difference and quotient of times is rounded as the
\* doubles of the code are.  The distances between the points are whole.

RoundedSpeeds == {Unit, RoundTo(11 * Unit, 10)}

RoundedInit ==
    /\ entry = "simulate_day_events"
    /\ num_agents \in 1..MaxAgents
    /\ speed_m_s \in RoundedSpeeds
    /\ trash_locations \in TaskLists
    /\ capacity \in 0..MaxCapacity
    /\ start \in Depots
    /\ pc = "call"
    /\ agents = <<>>
    /\ remaining = <<>>
    /\ time_passed = 0
    /\ i_min = 0
    /\ travel_time = 0
    /\ final_time = 0
    /\ total_distance = 0
    /\ exception = ""
    /\ assigned = <<>>
    /\ RouteIdle /\ EngineIdle /\ KinIdle /\ CollectorIdle /\ SplitIdle
    /\ PlaybackIdle /\ SoloIdle /\ LogIdle /\ ViewIdle /\ ClaudeIdle

\* lines 33-35, rounded
RoundedAdvance(ags, i, t_min) ==
    [j \in DOMAIN ags |->
        [ags[j] EXCEPT !.time_to_free = IF j = i THEN 0 ELSE FSub(@, t_min)]]

\* lines 48-63 for agent i at current_pos, the clock at now, the nearest
\* item best and the travel time tt
RoundedPickup(adv, i, now, current_pos, best, tt) ==
    /\ agents' =
         [adv EXCEPT
            ![i].schedule = Append(@,
                [start_time |-> now, end_time |-> FAdd(now, tt),
                 from |-> current_pos, to |-> best.pos,
                 type |-> "pickup", trash_index |-> best.idx]),
            ![i].position = best.pos,
            ![i].time_to_free = FAdd(@, tt),
            ![i].capacity_used = IF Limited(capacity) THEN @ + 1 ELSE @]
    /\ remaining' = DropTask(remaining, best)
    /\ i_min' = i
    /\ travel_time' = tt
    /\ assigned' = Append(assigned,
         [agent |-> i, trash_index |-> best.idx, pos |-> best.pos,
          end_time |-> FAdd(now, tt)])
    /\ pc' = IF Limited(capacity) THEN "capacity" ELSE "while"

\* lines 36-49 for agent i
RoundedNearest(adv, i, now, best) ==
    RoundedPickup(adv, i, now, adv[i].position, best,
        FDiv(distance(adv[i].position, best.pos) * Unit, speed_m_s))

\* lines 29-63
RoundedAssign ==
    /\ pc = "while"
    /\ remaining # <<>>
    /\ time_passed' = FAdd(time_passed, agents[MinAgent(agents)].time_to_free)
    /\ RoundedNearest(
          RoundedAdvance(agents, MinAgent(agents),
                         agents[MinAgent(agents)].time_to_free),
          MinAgent(agents), time_passed',
          remaining[NearestIdx(agents[MinAgent(agents)].position,
                               Positions(remaining))])
    /\ UNCHANGED <<entry, num_agents, speed_m_s, trash_locations, capacity,
                   start, final_time, total_distance, exception>>
    /\ UNCHANGED <<rvars, evars, kvars, cvars, svars, pvars, avars, lvars, vvars, tvars>>

\* lines 65-78 for agent i and the travel time back
RoundedBack(i, travel_time_back) ==
    [agents EXCEPT
        ![i].schedule = Append(@,
            [start_time |-> FAdd(time_passed, travel_time),
             end_time |-> FAdd(FAdd(time_passed, travel_time), travel_time_back),
             from |-> agents[i].position, to |-> start,
             type |-> "return", trash_index |-> NoIndex]),
        ![i].position = start,
        ![i].time_to_free = FAdd(@, travel_time_back),
        ![i].capacity_used = 0]

\* lines 64-78
RoundedCapacity ==
    /\ pc = "capacity"
    /\ agents' =
         IF AtCapacity(agents[i_min].capacity_used, capacity)
         THEN RoundedBack(i_min,
                  FDiv(distance(agents[i_min].position, start) * Unit, speed_m_s))
         ELSE agents
    /\ pc' = "while"
    /\ UNCHANGED <<entry, num_agents, speed_m_s, trash_locations, capacity,
                   start, remaining, time_passed, i_min, travel_time,
                   final_time, total_distance, exception, assigned>>
    /\ UNCHANGED <<rvars, evars, kvars, cvars, svars, pvars, avars, lvars, vvars, tvars>>

\* lines 79-80
RoundedReturn ==
    /\ pc = "while"
    /\ remaining = <<>>
    /\ pc' = "returned"
    /\ final_time' =
         FAdd(time_passed, MaxOf({agents[i].time_to_free : i \in DOMAIN agents}))
    /\ UNCHANGED <<entry, num_agents, speed_m_s, trash_locations, capacity,
                   start, agents, remaining, time_passed, i_min, travel_time,
                   total_distance, exception, assigned>>
    /\ UNCHANGED <<rvars, evars, kvars, cvars, svars, pvars, avars, lvars, vvars, tvars>>

RoundedNext == DayEntry \/ RoundedAssign \/ RoundedCapacity \/ RoundedReturn

RoundedSpec == RoundedInit /\ [][RoundedNext]_vars

(* --------------------------- SimulationView --------------------------- *)

\* The playback of a schedule of simulate_day_events: update_simulation
\* and get_agent_position of visual_simulator.py.  The playback time is
\* counted in tenths of a second, the dt of update_simulation; the times of
\* the segments are the dispatcher's ticks.

MaxViewTasks == 2

TenthsPerTick == 10 \div TimeScale

\* A position from + (num / den) * (to - from), or the exception raised.
Shown(err, from, to, num, den) ==
    [error |-> err, from |-> from, to |-> to, num |-> num, den |-> den]

\* lines 162-165: the division of line 162 raises on a segment of no
\* duration
InSegment(seg, since, span) ==
    IF span = 0
    THEN Shown("ZeroDivisionError", seg.from, seg.to, since, span)
    ELSE Shown("", seg.from, seg.to, since, span)

\* lines 160-161: the first segment with start_time <= t <= end_time, 0 if
\* there is none
SegmentAt(schedule, t) ==
    LET hits == {k \in 1..Len(schedule) :
                    /\ schedule[k].start_time * TenthsPerTick <= t
                    /\ t <= schedule[k].end_time * TenthsPerTick}
    IN IF hits = {} THEN 0 ELSE CHOOSE k \in hits : \A j \in hits : k <= j

\* the loop of lines 160-166, k the segment found
PositionIn(schedule, t, k) ==
    IF k = 0
    THEN Shown("", schedule[Len(schedule)].to, schedule[Len(schedule)].to, 0, 1)
    ELSE InSegment(schedule[k], t - schedule[k].start_time * TenthsPerTick,
                   (schedule[k].end_time - schedule[k].start_time) * TenthsPerTick)

\* SimulationView.get_agent_position(agent, t)
get_agent_position(agent, t) ==
    IF agent.schedule = <<>>
    THEN Shown("", agent.position, agent.position, 0, 1)
    ELSE IF t < agent.schedule[1].start_time * TenthsPerTick
         THEN Shown("", agent.schedule[1].from, agent.schedule[1].from, 0, 1)
         ELSE PositionIn(agent.schedule, t, SegmentAt(agent.schedule, t))

\* simulate_day_events is called with at least one agent and a speed above
\* zero.
ViewInit ==
    /\ entry = "simulate_day_events"
    /\ num_agents \in 1..MaxAgents
    /\ speed_m_s \in {1, 2}
    /\ trash_locations \in UNION {[1..n -> Points] : n \in 0..MaxViewTasks}
    /\ capacity \in 0..1
    /\ start \in Depots
    /\ pc = "call"
    /\ agents = <<>>
    /\ remaining = <<>>
    /\ time_passed = 0
    /\ i_min = 0
    /\ travel_time = 0
    /\ final_time = 0
    /\ total_distance = 0
    /\ exception = ""
    /\ assigned = <<>>
    /\ RouteIdle /\ EngineIdle /\ KinIdle /\ CollectorIdle /\ SplitIdle
    /\ PlaybackIdle /\ SoloIdle /\ LogIdle /\ ViewIdle /\ ClaudeIdle

\* start_animation, on the schedule simulate_day_events returned
ViewStart ==
    /\ pc = "returned"
    /\ ~timer_on /\ shown = <<>>
    /\ sim_time' = 0
    /\ timer_on' = TRUE
    /\ UNCHANGED shown
    /\ UNCHANGED <<dvars, rvars, evars, kvars, cvars, svars, pvars, avars, lvars, tvars>>

\* lines 134-138: the playback time after the step
Stepped(t) ==
    IF t + 1 > final_time * TenthsPerTick THEN final_time * TenthsPerTick
    ELSE t + 1

\* update_simulation: the timer's slot
ViewUpdate ==
    /\ timer_on
    /\ \A i \in 1..Len(shown) : shown[i].error = ""
    /\ sim_time' = Stepped(sim_time)
    /\ timer_on' = ~(sim_time + 1 > final_time * TenthsPerTick)
    /\ shown' = [i \in DOMAIN agents |-> get_agent_position(agents[i], sim_time')]
    /\ UNCHANGED <<dvars, rvars, evars, kvars, cvars, svars, pvars, avars, lvars, tvars>>

ViewNext == DayEntry \/ DayAssign \/ DayCapacity \/ DayReturn \/ ViewStart \/ ViewUpdate

ViewSpec == ViewInit /\ [][ViewNext]_vars

(* ------------------------ the program of Claude.py -------------------- *)

\* main() of Claude.py: Simulation.run as a coroutine and Visualizer.run in
\* a worker thread, gathered.  The time is counted in steps of dt.  Of an
\* agent only the length of its path is kept: whether the physics of an
\* iteration bring it within 0.1 of its target is left open.

MaxDuration == 3

MaxPath == 2

\* Simulation(env), the agents with their paths, Visualizer(sim) and the
\* call of asyncio.gather
ClaudeInit ==
    /\ DispatchIdle /\ RouteIdle /\ EngineIdle /\ KinIdle /\ CollectorIdle
    /\ SplitIdle /\ PlaybackIdle /\ SoloIdle /\ LogIdle /\ ViewIdle
    /\ running = FALSE
    /\ time = 0
    /\ duration \in 1..MaxDuration
    /\ paths \in [1..2 -> 0..MaxPath]
    /\ sim_pc = "created"
    /\ vis_pc = "created"
    /\ quit = "none"
    /\ main_pc = "gather"

\* Simulation.run up to the head of its loop, lines 174-175
SimStart ==
    /\ sim_pc = "created"
    /\ running' = TRUE
    /\ sim_pc' = "loop"
    /\ UNCHANGED <<time, duration, paths, vis_pc, quit, main_pc>>
    /\ UNCHANGED <<dvars, rvars, evars, kvars, cvars, svars, pvars, avars, lvars, vvars>>

\* The paths after the loop over the agents, lines 178-186: an agent with
\* a path moves, and drops its target when it has come within 0.1 of it.
AfterAgents(ps) ==
    {qs \in [DOMAIN ps -> 0..MaxPath] :
        \A i \in DOMAIN ps :
            qs[i] = ps[i] \/ (ps[i] > 0 /\ qs[i] = ps[i] - 1)}

\* One iteration of the loop of Simulation.run, lines 177-189
SimStep ==
    /\ sim_pc = "loop"
    /\ time < duration /\ running
    /\ paths' \in AfterAgents(paths)
    /\ time' = time + 1
    /\ UNCHANGED <<running, duration, sim_pc, vis_pc, quit, main_pc>>
    /\ UNCHANGED <<dvars, rvars, evars, kvars, cvars, svars, pvars, avars, lvars, vvars>>

\* The condition of the loop is false and run returns; nothing is
\* assigned to running.
SimExit ==
    /\ sim_pc = "loop"
    /\ ~(time < duration /\ running)
    /\ sim_pc' = "done"
    /\ UNCHANGED <<running, time, duration, paths, vis_pc, quit, main_pc>>
    /\ UNCHANGED <<dvars, rvars, evars, kvars, cvars, svars, pvars, avars, lvars, vvars>>

\* asyncio.to_thread(vis.run): gather starts its awaitables in order, so
\* the thread begins after Simulation.run has run up to its first await.
VisStart ==
    /\ vis_pc = "created"
    /\ sim_pc # "created"
    /\ vis_pc' = "loop"
    /\ UNCHANGED <<running, time, duration, paths, sim_pc, quit, main_pc>>
    /\ UNCHANGED <<dvars, rvars, evars, kvars, cvars, svars, pvars, avars, lvars, vvars>>

\* The user closes the window: pygame queues a QUIT event.
UserQuit ==
    /\ vis_pc = "loop"
    /\ quit = "none"
    /\ quit' = "queued"
    /\ UNCHANGED <<running, time, duration, paths, sim_pc, vis_pc, main_pc>>
    /\ UNCHANGED <<dvars, rvars, evars, kvars, cvars, svars, pvars, avars, lvars, vvars>>

\* One iteration of the loop of Visualizer.run, lines 204-218: a QUIT
\* event calls Simulation.stop.
VisFrame ==
    /\ vis_pc = "loop"
    /\ running
    /\ running' = (quit # "queued")
    /\ quit' = IF quit = "queued" THEN "handled" ELSE quit
    /\ UNCHANGED <<time, duration, paths, sim_pc, vis_pc, main_pc>>
    /\ UNCHANGED <<dvars, rvars, evars, kvars, cvars, svars, pvars, avars, lvars, vvars>>

\* The condition of the loop of Visualizer.run is false.
VisExit ==
    /\ vis_pc = "loop"
    /\ ~running
    /\ vis_pc' = "done"
    /\ UNCHANGED <<running, time, duration, paths, sim_pc, quit, main_pc>>
    /\ UNCHANGED <<dvars, rvars, evars, kvars, cvars, svars, pvars, avars, lvars, vvars>>

\* asyncio.gather returns once both are finished, and main() with it.
MainDone ==
    /\ main_pc = "gather"
    /\ sim_pc = "done" /\ vis_pc = "done"
    /\ main_pc' = "done"
    /\ UNCHANGED <<running, time, duration, paths, sim_pc, vis_pc, quit>>
    /\ UNCHANGED <<dvars, rvars, evars, kvars, cvars, svars, pvars, avars, lvars, vvars>>

ClaudeNext ==
    \/ SimStart \/ SimStep \/ SimExit
    \/ VisStart \/ VisFrame \/ VisExit
    \/ UserQuit \/ MainDone

ClaudeSpec == ClaudeInit /\ [][ClaudeNext]_vars

\* The event loop runs the coroutine whenever it is ready, and the worker
\* thread runs; the user need not do anything.
ClaudeLive ==
    /\ ClaudeSpec
    /\ WF_vars(SimStart) /\ WF_vars(SimStep) /\ WF_vars(SimExit)
    /\ WF_vars(VisStart) /\ WF_vars(VisFrame) /\ WF_vars(VisExit)
    /\ WF_vars(MainDone)

(* ------------------------------ claims -------------------------------- *)

\* No argument of the call is negative.
NoNegativeArgument == num_agents >= 0 /\ speed_m_s >= 0 /\ capacity >= 0

\* The dispatcher ran its loop: at least one agent, a positive speed.
Dispatching == num_agents >= 1 /\ speed_m_s > 0

\* End times of every leg given to any agent: the pickups (assigned) and,
\* in simulate_day_events, the segments of the schedules.
LegEnds ==
    {assigned[k].end_time : k \in 1..Len(assigned)} \cup
    UNION {{agents[i].schedule[k].end_time : k \in 1..Len(agents[i].schedule)} :
             i \in DOMAIN agents}

AssignedIndices == {assigned[k].trash_index : k \in 1..Len(assigned)}

RemainingIndices == {remaining[k].idx : k \in 1..Len(remaining)}

AllIndices == 0..(Len(trash_locations) - 1)

\* No task picked twice, none lost: the picked and the outstanding indices
\* split the input's indices.
Conservation ==
    /\ \A j, k \in 1..Len(assigned) :
          assigned[j].trash_index = assigned[k].trash_index => j = k
    /\ \A j, k \in 1..Len(remaining) :
          remaining[j].idx = remaining[k].idx => j = k
    /\ AssignedIndices \cap RemainingIndices = {}
    /\ AssignedIndices \cup RemainingIndices = AllIndices

\* One assignment per loop iteration: a single new assignment, of a task
\* that was outstanding, which is the one task that leaves the pool.
IterationStep == pc = "while" /\ remaining # <<>>

OneAssignment ==
    /\ Len(assigned') = Len(assigned) + 1
    /\ Len(remaining') = Len(remaining) - 1
    /\ assigned'[Len(assigned')].trash_index \in RemainingIndices
    /\ assigned'[Len(assigned')].agent \in DOMAIN agents

AllAssignedOnce ==
    /\ remaining = <<>>
    /\ \A t \in AllIndices :
          Cardinality({k \in 1..Len(assigned) : assigned[k].trash_index = t}) = 1

\* C2 as stated (on calls without a negative argument): in every run each
\* task is assigned exactly once and the pool is empty when the dispatcher
\* returns.
C2_Original == (NoNegativeArgument /\ pc = "returned") => AllAssignedOnce

\* C2, amended: in every run with at least one agent and a positive speed,
\* each task is assigned to exactly one agent exactly once, every loop
\* iteration makes exactly one assignment, and the pool is empty at return.
C2_TaskConservation ==
    /\ [](Dispatching =>
            /\ pc \in {"while", "capacity", "returned"} => Conservation
            /\ pc = "returned" => AllAssignedOnce)
    /\ [][(Dispatching /\ IterationStep) => OneAssignment]_vars

\* A run of two agents returned, each of them having picked a task.
C2_Witness ==
    /\ pc = "returned" /\ Dispatching
    /\ Len(trash_locations) = MaxTasks
    /\ Len(assigned) = MaxTasks
    /\ \E j, k \in 1..Len(assigned) : assigned[j].agent # assigned[k].agent

\* C3 as stated (on calls without a negative argument): a call with zero
\* agents, zero speed or no task returns completion time 0 (and distance 0)
\* and raises nothing.
C3_NoOp ==
    (/\ NoNegativeArgument
     /\ num_agents = 0 \/ speed_m_s = 0 \/ trash_locations = <<>>) =>
        /\ pc # "raised"
        /\ pc = "returned" => (final_time = 0 /\ total_distance = 0)

LoadOf(i) == agents[i].capacity_used

LastSegment(ag) == ag.schedule[Len(ag.schedule)]

\* The step takes agent i's load from a positive count to 0.
LoadReset(i) == LoadOf(i) > 0 /\ agents'[i].capacity_used = 0

\* The step gives agent i the return leg to the depot and puts it there.
ReturnScheduled(i) ==
    /\ agents'[i].position = start
    /\ agents'[i].schedule =
         Append(agents[i].schedule, LastSegment(agents'[i]))
    /\ LastSegment(agents'[i]).type = "return"
    /\ LastSegment(agents'[i]).to = start

\* C4: in simulate_day_events with capacity > 0 every load is within
\* 0..capacity, is below capacity whenever the loop selects an agent (at the
\* head of the loop), and goes back to 0 only in the step that appends the
\* return leg and moves the agent to the depot.
C4_LoadWithinCapacity ==
    /\ []((entry = "simulate_day_events" /\ capacity > 0) =>
            \A i \in DOMAIN agents :
                /\ 0 <= LoadOf(i) /\ LoadOf(i) <= capacity
                /\ pc = "while" => LoadOf(i) < capacity)
    /\ [][(entry = "simulate_day_events" /\ capacity > 0) =>
            \A i \in DOMAIN agents : LoadReset(i) => ReturnScheduled(i)]_vars

\* One agent is back at the depot after a full load while another one
\* carries a task.
C4_Witness ==
    /\ entry = "simulate_day_events" /\ pc = "while" /\ capacity = 2
    /\ \E i, j \in DOMAIN agents :
          /\ LoadOf(i) = 0 /\ agents[i].schedule # <<>>
          /\ LastSegment(agents[i]).type = "return"
          /\ LoadOf(j) = 1

Last(s) == s[Len(s)]

\* C5: for every depot, task list and capacity the returned route starts
\* at the depot and ends at the depot.
C5_RouteEndsAtDepot ==
    rpc = "returned" =>
        /\ full_path # <<>>
        /\ full_path[1] = bin_pos
        /\ Last(full_path) = bin_pos

\* A route whose last chunk is smaller than the capacity.
C5_Witness ==
    /\ rpc = "returned" /\ rcapacity = 2 /\ Len(trash_points) = 3
    /\ bin_pos \notin {trash_points[k] : k \in 1..3}
    /\ Len(full_path) = 6

CeilDiv(n, c) == (n + c - 1) \div c

\* Where the constructor puts the depot in a route of n tasks, capacity
\* c >= 1: at the start and after each chunk of c tasks (the last chunk
\* holds what is left).
DepotSlots(n, c) ==
    ({1} \cup {k * (c + 1) + 1 : k \in 1..(n \div c)}) \cup {n + CeilDiv(n, c) + 1}

\* C6: for a capacity c >= 1, at most c task waypoints lie between two
\* consecutive occurrences of the depot, and the depot visits are exactly c
\* task waypoints apart, but for the last chunk: every chunk except
\* possibly the last holds exactly c task waypoints.
C6_ChunksWithinCapacity ==
    (rpc = "returned" /\ rcapacity >= 1) =>
        LET n == Len(trash_points)
            c == rcapacity
        IN /\ \A i \in 1..Len(full_path) : \A j \in i..Len(full_path) :
                 (\A k \in i..j : full_path[k] # bin_pos) => j - i + 1 <= c
           /\ Len(full_path) = n + CeilDiv(n, c) + 1
           /\ \A k \in DepotSlots(n, c) : full_path[k] = bin_pos

\* A route of a full chunk and a smaller last one, no task at the depot.
C6_Witness ==
    /\ rpc = "returned" /\ rcapacity = 2 /\ Len(trash_points) = 3
    /\ full_path[2] # bin_pos /\ full_path[3] # bin_pos
    /\ full_path[4] = bin_pos /\ full_path[5] # bin_pos

CountIn(p, seq, idx) == Cardinality({k \in idx : seq[k] = p})

\* The depot waypoints of the returned route, by the role in which the
\* constructor appended them (a task lying on the depot is a task waypoint).
RouteDepotSlots ==
    IF rcapacity >= 1 THEN DepotSlots(Len(trash_points), rcapacity)
    ELSE {1} \cup (IF Len(full_path) = Len(trash_points) + 2
                   THEN {Len(full_path)} ELSE {})

RouteTaskSlots == (1..Len(full_path)) \ RouteDepotSlots

\* C7: the route's task waypoints are the input tasks, each position as
\* often as the input has it; every other waypoint is the depot; with n > 0
\* tasks and capacity c >= 1 there are n task waypoints and ceil(n/c) + 1
\* depot waypoints.
C7_RouteConservesTasks ==
    rpc = "returned" =>
        LET n == Len(trash_points)
        IN /\ RouteDepotSlots \subseteq 1..Len(full_path)
           /\ \A k \in RouteDepotSlots : full_path[k] = bin_pos
           /\ \A p \in RoutePoints :
                 CountIn(p, full_path, RouteTaskSlots) =
                 CountIn(p, trash_points, 1..n)
           /\ \A k \in 1..Len(full_path) :
                 full_path[k] = bin_pos \/ \E j \in 1..n : full_path[k] = trash_points[j]
           /\ (n > 0 /\ rcapacity >= 1) =>
                 /\ Cardinality(RouteTaskSlots) = n
                 /\ Cardinality(RouteDepotSlots) = CeilDiv(n, rcapacity) + 1

\* A route over a task list that names one position twice.
C7_Witness ==
    /\ rpc = "returned" /\ rcapacity = 1 /\ Len(trash_points) = 3
    /\ trash_points[1] = trash_points[2]
    /\ trash_points[1] # bin_pos
    /\ Len(full_path) = 7

RECURSIVE PathLength(_)
PathLength(path) ==
    IF Len(path) <= 1 THEN 0
    ELSE distance(path[1], path[2]) + PathLength(Tail(path))

\* The route the constructor gives for the dispatcher's depot and tasks,
\* with unlimited capacity.
UnlimitedRoute == build_path_with_capacity(Origin, trash_locations, 0)

SingleAgentReturned ==
    /\ entry = "concurrency_simulation" /\ pc = "returned"
    /\ num_agents = 1

\* C8 as stated (on calls with a positive speed): for one agent and
\* unlimited capacity the dispatcher's total distance is the path length of
\* the constructor's route.
C8_Original ==
    (SingleAgentReturned /\ speed_m_s > 0) =>
        total_distance = PathLength(UnlimitedRoute)

\* C8, amended: for one agent, a positive speed and unlimited capacity the
\* dispatcher visits the tasks in the order of the constructor's route, and
\* its total distance is the path length of that route less the closing leg
\* from the last task back to the depot, which the dispatcher never makes.
C8_SingleAgentEquivalence ==
    (SingleAgentReturned /\ speed_m_s > 0) =>
        LET n == Len(trash_locations)
        IN /\ \A k \in 1..n : UnlimitedRoute[k + 1] = assigned[k].pos
           /\ PathLength(UnlimitedRoute) =
                total_distance +
                (IF n = 0 THEN 0 ELSE distance(assigned[n].pos, Origin))

\* A single-agent run that ended away from the depot.
C8_Witness ==
    /\ SingleAgentReturned /\ speed_m_s > 0
    /\ Len(trash_locations) = 3
    /\ agents[1].position # Origin
    /\ total_distance > 0

ScenarioTasks == <<(<<3, 0>>), (<<3, 4>>), (<<0, 4>>)>>

\* One agent, speed 1, unlimited capacity, depot (0,0), the three tasks.
ScenarioRun ==
    /\ pc = "returned"
    /\ num_agents = 1 /\ speed_m_s = 1 /\ capacity = 0 /\ start = Origin
    /\ trash_locations = ScenarioTasks

\* C9: in the scenario the dispatcher visits (3,0), (3,4), (0,4) in this
\* order, reports total distance 10 (concurrency_simulation) and completion
\* time 10.
C9_Scenario ==
    ScenarioRun =>
        /\ [k \in 1..Len(assigned) |-> assigned[k].pos] = ScenarioTasks
        /\ final_time = 10 * TimeScale
        /\ entry = "concurrency_simulation" => total_distance = 10
        /\ entry = "simulate_day_events" =>
              [k \in 1..Len(agents[1].schedule) |-> agents[1].schedule[k].to]
                  = ScenarioTasks

\* The scenario has run to its end.
C9_Witness == ScenarioRun /\ entry = "concurrency_simulation" /\ Len(assigned) = 3

ScenarioRoute ==
    /\ rpc = "returned"
    /\ bin_pos = Origin /\ rcapacity = 1
    /\ trash_points = ScenarioTasks

\* C10 as stated: the route is depot, (3,0), depot, (3,4), depot, (0,4),
\* depot.
C10_Original ==
    ScenarioRoute =>
        full_path = <<Origin, (<<3, 0>>), Origin, (<<3, 4>>), Origin, (<<0, 4>>), Origin>>

\* C10, amended: every chunk starts from the depot, so after (3,0) the task
\* next to the depot is (0,4): the route is depot, (3,0), depot, (0,4),
\* depot, (3,4), depot.
C10_ScenarioRoute ==
    ScenarioRoute =>
        full_path = <<Origin, (<<3, 0>>), Origin, (<<0, 4>>), Origin, (<<3, 4>>), Origin>>

\* The scenario's route has been built.
C10_Witness == ScenarioRoute /\ Len(full_path) = 7

RouteLength == PathLength(full_path)

\* Path length of the unlimited-capacity route for the same depot and tasks.
UnlimitedLength == PathLength(build_path_with_capacity(bin_pos, trash_points, 0))

\* C11 as stated: with any positive capacity the route is never shorter
\* than the unlimited-capacity route of the same depot and task list.
C11_Original ==
    (rpc = "returned" /\ rcapacity >= 1) => RouteLength >= UnlimitedLength

\* C11, amended: the route built with capacity 1 is never shorter than the
\* unlimited-capacity route, a capacity of at least the number of tasks
\* gives exactly the unlimited route's length, and in the scenario capacity
\* 1 gives a strictly longer route (24 against 14).  In between the greedy
\* walk is not monotone.
C11_CapacityCost ==
    rpc = "returned" =>
        /\ rcapacity = 1 => RouteLength >= UnlimitedLength
        /\ (rcapacity >= 1 /\ rcapacity >= Len(trash_points)) =>
              RouteLength = UnlimitedLength
        /\ ScenarioRoute => (RouteLength = 24 /\ UnlimitedLength = 14)

\* A capacity-1 route over tasks on both sides of the depot, longer than
\* the unlimited one.
C11_Witness ==
    /\ rpc = "returned" /\ rcapacity = 1
    /\ Len(trash_points) = MaxLineTasks
    /\ trash_points[1] = <<0 - 9, 0>> /\ trash_points[2] = <<2, 0>>
    /\ RouteLength > UnlimitedLength

\* The distance accumulated so far by all agents of concurrency_simulation.
Accumulated ==
    SumOver([i \in DOMAIN agents |-> agents[i].total_distance], DOMAIN agents)

AccumulatedNext ==
    SumOver([i \in DOMAIN agents' |-> agents'[i].total_distance], DOMAIN agents')

ConcAssignStep == entry = "concurrency_simulation" /\ IterationStep

\* The leg of the assignment the step makes: from the selected agent's
\* position to the task it is given.
StepLeg == distance(agents[i_min'].position, Last(assigned').pos)

\* C12 as stated: the accumulated distance strictly increases with every
\* task assignment.
C12_Original == [][ConcAssignStep => AccumulatedNext > Accumulated]_vars

\* C12, amended: the accumulated total distance is never negative and never
\* decreases; every assignment adds the distance from the agent's position
\* to the task, so it strictly increases unless the task lies where the
\* agent already is; the returned total is what was accumulated, and 0 for
\* an empty task list.
C12_MonotonicDistance ==
    /\ [](entry = "concurrency_simulation" =>
            /\ Accumulated >= 0
            /\ total_distance >= 0
            /\ (pc = "returned" /\ trash_locations = <<>>) => total_distance = 0
            /\ (pc = "returned" /\ agents # <<>>) => total_distance = Accumulated)
    /\ [][ConcAssignStep =>
            /\ AccumulatedNext = Accumulated + StepLeg
            /\ AccumulatedNext >= Accumulated
            /\ (AccumulatedNext > Accumulated) <=>
                  (Last(assigned').pos # agents[i_min'].position)]_vars

\* A single agent has picked two tasks at one position: the second pickup
\* added nothing.
C12_Witness ==
    /\ entry = "concurrency_simulation" /\ pc = "returned"
    /\ num_agents = 1 /\ Len(assigned) = 3
    /\ assigned[1].pos = assigned[2].pos
    /\ assigned[3].pos # assigned[2].pos
    /\ total_distance > 0

\* C13 as stated: a call with a negative speed, capacity or agent count is
\* rejected at entry with an InvalidParameter error, before any agent record
\* or task pool is set up; it never returns a result.
C13_Rejected ==
    (~NoNegativeArgument /\ pc # "call") =>
        /\ pc = "raised" /\ exception = "InvalidParameter"
        /\ agents = <<>> /\ remaining = <<>>

\* The agents whose route SimulationEngine.run has attached.
Attached == IF epc = "routes" THEN 1..(cursor - 1) ELSE 1..Len(fleet)

\* C14 as stated: no agent is left with an attached route of zero
\* waypoints, and no update of an agent raises because its route is empty.
C14_EmptyRouteRejected ==
    epc \notin {"idle", "call"} =>
        /\ \A k \in Attached : fleet[k].route # <<>>
        /\ epc # "raised"
        /\ error = ""

\* C15 as stated (on runs that dispatch): after the dispatcher returns,
\* the task collection the caller supplied is empty.
C15_Original == (pc = "returned" /\ Dispatching) => trash_locations = <<>>

\* C15, amended: the dispatcher consumes a working copy of the task list.
\* While it runs the copy holds the tasks not yet assigned, after it
\* returns the copy is empty, and the collection the caller supplied is
\* never changed.
C15_ConsumesCopy ==
    /\ [](/\ pc = "returned" => remaining = <<>>
          /\ (pc \in {"while", "capacity"}) =>
                /\ Len(remaining) + Len(assigned) = Len(trash_locations)
                /\ \A k \in 1..Len(remaining) :
                      trash_locations[remaining[k].idx + 1] = remaining[k].pos)
    /\ [][trash_locations' = trash_locations]_vars

\* concurrency_simulation has returned from a run that assigned every task
\* of a full list, and the caller still has the list.
C15_Witness ==
    /\ entry = "concurrency_simulation" /\ pc = "returned"
    /\ Len(assigned) = MaxTasks
    /\ remaining = <<>>
    /\ Len(trash_locations) = MaxTasks

\* The route the constructor gives for the dispatcher's depot and tasks
\* with capacity 0.
ZeroCapacityRoute == build_path_with_capacity(start, trash_locations, 0)

\* The waypoints 2 .. n + 1 of a route over n tasks.
Interior(path, n) == 2..Min2(n + 1, Len(path))

\* Some agent's schedule has a 'return' segment.
ReturnScheduledFor(i) ==
    \E k \in 1..Len(agents[i].schedule) : agents[i].schedule[k].type = "return"

\* C16: capacity 0 is unlimited capacity.  For every task list the route
\* constructor's route with capacity 0 is the depot, then the tasks in one
\* batch (every task once, no waypoint that is not a task among them), then
\* at most the closing depot; and simulate_day_events with capacity 0 never
\* schedules a 'return' segment nor counts a load.
C16_ZeroIsUnlimited ==
    /\ pc = "returned" =>
          LET n == Len(trash_locations)
              r == ZeroCapacityRoute
          IN /\ r[1] = start
             /\ Len(r) \in {n + 1, n + 2}
             /\ Len(r) = n + 2 => r[n + 2] = start
             /\ \A p \in Points :
                   CountIn(p, r, Interior(r, n)) =
                       CountIn(p, trash_locations, 1..n)
    /\ (entry = "simulate_day_events" /\ capacity = 0) =>
          \A i \in DOMAIN agents :
              ~ReturnScheduledFor(i) /\ agents[i].capacity_used = 0

\* simulate_day_events has returned from a run of two agents over a full
\* task list with capacity 0, and the constructor's route for those tasks
\* has the depot at both ends only.
C16_Witness ==
    /\ entry = "simulate_day_events" /\ pc = "returned" /\ capacity = 0
    /\ num_agents = MaxAgents /\ Len(assigned) = MaxTasks
    /\ Len(ZeroCapacityRoute) = MaxTasks + 2
    /\ \A k \in 1..Len(trash_locations) : trash_locations[k] # start

\* The length of the first leg of the route, in units.
FirstLeg == FHypot(route[1], route[2])

\* The ticks so far add up to exactly the time of the first leg, d / v.
FirstLegTimeSpent == route # <<>> /\ speed * total_time = FirstLeg * Unit

\* C17 as stated: once the tick deltas add up to exactly d / v, the agent
\* is at the target waypoint, its route index advanced by one and its
\* accumulated distance exactly d, however the time was split into ticks.
C17_TickSplit ==
    FirstLegTimeSpent =>
        /\ position_index = 1
        /\ current_position = route[2]
        /\ distance_traveled = FirstLeg

\* The trash point t is a waypoint of the route of agent k.
Claims(k, t) == \E w \in 1..Len(fleet[k].route) : fleet[k].route[w] = t

\* C18 as stated: once SimulationEngine.run has attached the routes of two
\* or more agents, no trash point is in the routes of two different agents.
C18_DisjointRoutes ==
    (epc \in {"loop", "finished", "raised"} /\ Len(fleet) >= 2) =>
        \A t \in {PlannerTrashPoints[j] : j \in 1..Len(PlannerTrashPoints)} :
            \A a, b \in 1..Len(fleet) : (Claims(a, t) /\ Claims(b, t)) => a = b

\* A dispatch step that gives a task to an agent.
AssignStep == IterationStep /\ Len(assigned') = Len(assigned) + 1

\* The agent the step selects.
Selected == Last(assigned').agent

\* C19: at every dispatch step the selected agent has the least
\* time_to_free of all agents, and of the agents with that least value it
\* is the one with the lowest index.
C19_MinAgentSelected ==
    [][AssignStep =>
          /\ Selected = i_min'
          /\ \A j \in DOMAIN agents :
                agents[Selected].time_to_free <= agents[j].time_to_free
          /\ \A j \in DOMAIN agents :
                agents[j].time_to_free = agents[Selected].time_to_free
                    => Selected <= j]_vars

\* Two agents at a positive speed: the first task went to agent 1, both
\* agents being free, and the second to agent 2, agent 1 being under way.
C19_Witness ==
    /\ Dispatching /\ num_agents = 2
    /\ Len(assigned) >= 2
    /\ assigned[1].agent = 1 /\ assigned[2].agent = 2
    /\ assigned[1].end_time > 0

\* The agents as the clock advance of the step leaves them, before the
\* assignment.
AfterAdvance ==
    AdvanceClock(agents, Selected, agents[Selected].time_to_free)

\* C20 as stated: after every clock advance every agent's time_to_free is
\* >= 0 and the selected agent's is 0; the clock never decreases and
\* increases by exactly the selected agent's previous time_to_free.
C20_ClockAdvance ==
    [][AssignStep =>
          /\ \A j \in DOMAIN agents : AfterAdvance[j].time_to_free >= 0
          /\ AfterAdvance[Selected].time_to_free = 0
          /\ time_passed' >= time_passed
          /\ time_passed' = time_passed + agents[Selected].time_to_free]_vars

\* The position of the selected agent when the task is chosen.
SelectedFrom == agents[Selected].position

\* C21: the task assigned at a dispatch step is an outstanding task at the
\* least Euclidean distance from the selected agent's position, and of the
\* outstanding tasks at that distance it is the first in the remaining list.
C21_NearestTaskAssigned ==
    [][AssignStep =>
          \E k \in 1..Len(remaining) :
              /\ remaining[k].idx = Last(assigned').trash_index
              /\ remaining[k].pos = Last(assigned').pos
              /\ \A j \in 1..Len(remaining) :
                    distance(SelectedFrom, remaining[k].pos) <=
                        distance(SelectedFrom, remaining[j].pos)
              /\ \A j \in 1..(k - 1) :
                    distance(SelectedFrom, remaining[j].pos) >
                        distance(SelectedFrom, remaining[k].pos)]_vars

\* The first task given out was the second of the list, nearer than the
\* first and at the same position as the third.
C21_Witness ==
    /\ Dispatching /\ Len(trash_locations) = 3
    /\ Len(assigned) >= 1
    /\ assigned[1].trash_index = 1
    /\ trash_locations[2] = trash_locations[3]
    /\ trash_locations[1] # trash_locations[2]

\* The run is between two passes of the loop of simulate_day_events, or
\* over, with a positive capacity.
DayLimitedSettled ==
    /\ entry = "simulate_day_events" /\ capacity > 0
    /\ pc \in {"while", "returned", "raised"}

\* The segments of agent i's schedule.
ScheduleOf(i) == agents[i].schedule

ReturnHomeStep == call'.n = call.n + 1 /\ call'.op = "return_home"

\* C23 as stated: return_home adds to total_time the travel time from the
\* position the collector had before the call to the bin, moves the
\* collector to the bin and sets its items and weight to 0.
C23_ReturnHome ==
    [][ReturnHomeStep =>
          /\ collector'.total_time =
                collector.total_time +
                TravelTime(distance(<<collector.x, collector.y>>, call'.bin),
                           collector.speed)
          /\ <<collector'.x, collector'.y>> = call'.bin
          /\ collector'.current_items = 0
          /\ collector'.current_weight = 0]_vars

\* The greedy rule at one waypoint: t is a task of rem nearest to prev, and
\* every task that comes before it in rem is strictly farther from prev.
GreedyPick(prev, rem, t) ==
    \E j \in 1..Len(rem) :
        /\ rem[j] = t
        /\ \A i \in 1..Len(rem) : distance(prev, t) <= distance(prev, rem[i])
        /\ \A i \in 1..(j - 1) : distance(prev, rem[i]) > distance(prev, t)

\* Walks full_path from waypoint k with the tasks rem still to collect: a
\* task waypoint just after a depot slot is picked from the depot, any other
\* from the waypoint before it.
RECURSIVE BatchesGreedy(_, _)
BatchesGreedy(k, rem) ==
    LET slots == DepotSlots(Len(trash_points), rcapacity)
    IN IF k > Len(full_path) THEN rem = <<>>
       ELSE IF k \in slots THEN BatchesGreedy(k + 1, rem)
       ELSE /\ GreedyPick(IF (k - 1) \in slots THEN bin_pos ELSE full_path[k - 1],
                          rem, full_path[k])
            /\ BatchesGreedy(k + 1, RemoveFirst(rem, full_path[k]))

\* C24: with a positive capacity the first task of every batch is the
\* remaining task nearest to the depot, every later task of a batch is the
\* remaining task nearest to the task before it, and of equally near tasks
\* the one that comes first in the remaining list is taken.
C24_BatchesGreedy ==
    (rpc = "returned" /\ rcapacity >= 1) => BatchesGreedy(1, trash_points)

\* A second batch whose first task is nearest to the depot although another
\* remaining task is nearer to the last task of the first batch.
C24_Witness ==
    /\ rpc = "returned" /\ rcapacity = 1 /\ Len(trash_points) = 3
    /\ distance(full_path[2], full_path[6]) < distance(full_path[2], full_path[4])
    /\ distance(bin_pos, full_path[4]) < distance(bin_pos, full_path[6])

\* Distance of the i-th task of the split's input from the depot.
SplitDistance(i) == distance(bin_position, drone_trash[i])

\* 0-based rank of the i-th task in ascending distance from the depot, ties
\* in input order.
SplitRank(i) ==
    Cardinality({j \in 1..Len(drone_trash) :
                    \/ SplitDistance(j) < SplitDistance(i)
                    \/ SplitDistance(j) = SplitDistance(i) /\ j < i})

\* C25: with n >= 1 drones the split returns n subsets; the task of rank k
\* is in subset k mod n (at place k div n of it) and the subsets hold
\* nothing else, so every task is in exactly one subset and the sizes differ
\* by at most one.
C25_RoundRobinPartition ==
    (spc = "returned" /\ num_drones >= 1) =>
        /\ Len(assignments) = num_drones
        /\ \A i \in 1..Len(drone_trash) :
              LET sub == assignments[(SplitRank(i) % num_drones) + 1]
                  at == (SplitRank(i) \div num_drones) + 1
              IN at <= Len(sub) /\ sub[at] = drone_trash[i]
        /\ \A r \in 1..num_drones :
              Len(assignments[r]) =
                  Cardinality({i \in 1..Len(drone_trash) :
                                  SplitRank(i) % num_drones = r - 1})
        /\ \A r, q \in 1..num_drones :
              Len(assignments[r]) - Len(assignments[q]) <= 1

\* Three tasks dealt out to two drones, two different tasks of them
\* equally far from the depot.
C25_Witness ==
    /\ spc = "returned" /\ num_drones = 2 /\ Len(drone_trash) = 3
    /\ \E i, j \in 1..3 :
          /\ drone_trash[i] # drone_trash[j]
          /\ SplitDistance(i) = SplitDistance(j)
    /\ Len(assignments[1]) = 2 /\ Len(assignments[2]) = 1

\* The waypoint p is one of the planner's trash points.
IsTrashWaypoint(p) ==
    \E j \in 1..Len(PlannerTrashPoints) : PlannerTrashPoints[j] = p

\* C26 as stated: in a route of the nearest-neighbour planner for an agent
\* of capacity c >= 1, whatever the bins of the environment, every c + 1
\* consecutive waypoints hold a bin waypoint: no more than c trash waypoints
\* follow one another.
C26_DetourAtCapacity ==
    algorithm = "nearest_neighbor" =>
        \A k \in Attached :
            LET r == fleet[k].route
                c == fleet[k].capacity
            IN \A w \in 1..(Len(r) - c) :
                  \E j \in w..(w + c) : ~IsTrashWaypoint(r[j])

\* The task locations of the playback, in units.
PlayTaskPoints == {InUnits(play_tasks[j]) : j \in 1..Len(play_tasks)}

\* The frame brings agent k to its next waypoint.
ArrivesInFrame(k) ==
    frame_agents'[k].position_index = frame_agents[k].position_index + 1

\* The waypoint agent k stands on after the frame.
WaypointReached(k) ==
    frame_agents'[k].route[frame_agents'[k].position_index + 1]

\* Agent k enters PickingUp in the frame: its pickup timer, zero before, is
\* its pickup time after.
EntersPickingUp(k) ==
    /\ frame_agents[k].pickup_timer = 0
    /\ frame_agents'[k].pickup_timer = frame_agents'[k].pickup_time
    /\ frame_agents'[k].pickup_timer > 0

\* C27 as stated: an agent enters PickingUp in a frame exactly when the
\* frame brings it to a waypoint that is a task location, and an arrival at
\* a depot waypoint leaves the pickup timer at zero.
C27_PickupOnTaskArrival ==
    [][\A k \in 1..Len(frame_agents) :
          /\ EntersPickingUp(k) <=>
                (ArrivesInFrame(k) /\ WaypointReached(k) \in PlayTaskPoints)
          /\ (ArrivesInFrame(k) /\ WaypointReached(k) = InUnits(Origin)) =>
                frame_agents'[k].pickup_timer = 0]_vars

\* C28 as stated: on every frame that an agent begins in PickingUp (pickup
\* timer above zero) its position, route index, accumulated distance and
\* speed are left as they were, for the human and for the drones.
C28_OnlyTimerChanges ==
    [][\A k \in 1..Len(frame_agents) :
          frame_agents[k].pickup_timer > 0 =>
              /\ frame_agents'[k].current_position = frame_agents[k].current_position
              /\ frame_agents'[k].position_index = frame_agents[k].position_index
              /\ frame_agents'[k].distance_traveled = frame_agents[k].distance_traveled
              /\ frame_agents'[k].speed = frame_agents[k].speed]_vars

\* The tick takes the agent along its route: to another position, or on to
\* the next waypoint.
KinMoved ==
    position_index' # position_index \/ current_position' # current_position

\* C29: the pickup timer is never negative; a tick that begins with the
\* timer above zero leaves the agent where it is, a tick that begins with
\* the timer at zero moves an agent that has a waypoint ahead, and once the
\* timer is back at zero after an arrival at a task the ticks spent in
\* pickup add up to the pickup time at least.
C29_DwellTimer ==
    /\ [](/\ pickup_timer >= 0
          /\ (collected_positions # {} /\ pickup_timer = 0) =>
                dwell >= pickup_time)
    /\ [][/\ pickup_timer > 0 =>
                UNCHANGED <<position_index, current_position, distance_traveled>>
          /\ (pickup_timer = 0 /\ position_index < Len(route) - 1) => KinMoved]_vars

\* An agent that waited out a pickup of one second, in ticks that add up
\* to more than that, and is on its way back.
C29_Witness ==
    /\ Len(route) = 3 /\ pickup_time = Unit
    /\ collected_positions # {} /\ pickup_timer = 0
    /\ dwell > pickup_time
    /\ position_index = 1 /\ current_position # route[2]

\* C30 as stated, for the frames in which another agent is still on its
\* way: once an agent's route index has reached the final waypoint of its
\* route, no later frame changes its position, route index, accumulated
\* distance or reported time.
C30_DoneIsTerminal ==
    [][\A k \in 1..Len(frame_agents) :
          (/\ RouteDone(frame_agents[k])
           /\ \E j \in 1..Len(frame_agents) : ~RouteDone(frame_agents[j])) =>
              /\ frame_agents'[k].current_position = frame_agents[k].current_position
              /\ frame_agents'[k].position_index = frame_agents[k].position_index
              /\ frame_agents'[k].distance_traveled = frame_agents[k].distance_traveled
              /\ frame_agents'[k].total_time = frame_agents[k].total_time]_vars

\* Summed length of the first n legs of the agent's route.
RECURSIVE LegsLength(_)
LegsLength(n) ==
    IF n = 0 THEN 0 ELSE LegsLength(n - 1) + FHypot(route[n], route[n + 1])

\* What the agent has covered: the legs it has completed and its advance
\* along the leg it is on.
Covered ==
    LegsLength(position_index) +
    (IF position_index < Len(route) - 1
     THEN FHypot(route[position_index + 1], current_position) ELSE 0)

\* C31 as stated: at every tick the accumulated distance is the length of
\* the completed legs plus the advance along the current leg; it never
\* exceeds the path length of the route and equals it once the agent is
\* Done.
C31_DistanceAccounting ==
    route # <<>> =>
        /\ distance_traveled = Covered
        /\ distance_traveled <= LegsLength(Len(route) - 1)
        /\ position_index >= Len(route) - 1 =>
              distance_traveled = LegsLength(Len(route) - 1)

\* C32: after every update of a HumanAgent, whatever its starting speed and
\* the tick delta, its speed is at least the floor 0.1, and so above zero.
C32_SpeedFloor ==
    (frames > 0 /\ Len(frame_agents) = 1 /\ frame_agents[1].kind = "HumanAgent") =>
        /\ frame_agents[1].speed >= SpeedFloor
        /\ frame_agents[1].speed > 0

\* An agent that started with a speed below 0.1 has moved at the floor
\* speed.
C32_Witness ==
    /\ frames > 0 /\ Len(frame_agents) = 1
    /\ frame_agents[1].speed = SpeedFloor
    /\ frame_agents[1].distance_traveled > 0

\* C33: a HumanAgent with a route, updated again and again with one
\* positive time step, has a speed above zero while it is away from its
\* next waypoint, and in the end is done.
C33_ForwardProgress ==
    /\ [](solo.kind = "HumanAgent" /\ ~solo.done /\
            Magnitude(solo.route[solo.current_index + 1][1] - solo.position[1]) >= AtWaypoint
          => SpeedTimesDt(solo, time_step) > 0)
    /\ <>(solo.kind = "HumanAgent" /\ solo.done)

\* C34: after every update of a drone its speed is at most max_speed, and
\* in one update the speed grows by at most max_accel times the time step.
C34_SpeedCapped ==
    /\ [](solo.kind = "DroneAgent" => Abs(solo.velocity[1]) <= solo.max_speed)
    /\ [][solo.kind = "DroneAgent" =>
            (Abs(solo'.velocity[1]) - Abs(solo.velocity[1])) * Unit
                <= solo.max_accel * time_step]_vars

\* C35: in the playback the human and the drones do not influence each
\* other: under every sequence of frames each agent is in the state it
\* would be in were it the only agent updated.
C35_FleetsIndependent ==
    \A k \in 1..Len(frame_agents) : frame_agents[k] = alone[k].agent

\* ceil(max_time / time_step)
CeilSteps == (max_time + time_step - 1) \div time_step

C37_GapFreeChain ==
    (entry = "simulate_day_events" /\ pc = "returned" /\ num_agents >= 1
        /\ speed_m_s > 0) =>
        \A i \in DOMAIN agents :
            /\ ScheduleOf(i) # <<>> =>
                  ScheduleOf(i)[1].start_time = 0 /\ ScheduleOf(i)[1].from = start
            /\ \A k \in 1..(Len(ScheduleOf(i)) - 1) :
                  /\ ScheduleOf(i)[k + 1].start_time = ScheduleOf(i)[k].end_time
                  /\ ScheduleOf(i)[k + 1].from = ScheduleOf(i)[k].to
            /\ \A k \in 1..Len(ScheduleOf(i)) :
                  ScheduleOf(i)[k].end_time >= ScheduleOf(i)[k].start_time

\* C38: for every schedule of simulate_day_events and every playback time
\* update_simulation passes, get_agent_position raises nothing and returns
\* a position between the ends of a segment of the agent's schedule.
C38_PositionDefined ==
    \A i \in 1..Len(shown) :
        /\ shown[i].error = ""
        /\ 0 <= shown[i].num /\ shown[i].num <= shown[i].den
        /\ ScheduleOf(i) # <<>> =>
              \E k \in 1..Len(ScheduleOf(i)) :
                  {shown[i].from, shown[i].to} \subseteq
                      {ScheduleOf(i)[k].from, ScheduleOf(i)[k].to}

\* C39: when Simulation.run has ended because the time reached the
\* duration, and no QUIT event comes, running becomes false, Visualizer.run
\* ends and main() completes.
C39_MainCompletes ==
    (sim_pc = "done" /\ time >= duration /\ duration > 0 /\ quit = "none") ~>
        (quit # "none" \/ (~running /\ vis_pc = "done" /\ main_pc = "done"))

====
